---- MODULE Spec2Model ----
(***************************************************************************)
(* Builtin runtime of the UPLC evaluator: Machine::call of                 *)
(* crates/uplc/src/machine/runtime.rs, one action per builtin arm.         *)
(*                                                                         *)
(* A machine is its remaining budget, its log vector and its               *)
(* BuiltinSemantics.  `runtime` is the ready Runtime record (fun, args)    *)
(* the caller holds; the action of its builtin calls Machine::call on it   *)
(* and leaves what the call returned in `last`.  `arena` holds the Runtime *)
(* records that Runtime::new, force and push allocate, in allocation       *)
(* order, and `calls` the call that allocated each of them.  `encoder` is  *)
(* the bytes a flat Encoder holds, `decoder` a flat Decoder (its buffer    *)
(* and position), `binder` a DeBruijn binder (binder/debruijn.rs) and      *)
(* `returned` the result of the last call of its Binder methods.           *)
(***************************************************************************)
EXTENDS Integers, Sequences, FiniteSets, TLC

VARIABLES budget, logs, semantics, runtime, last, arena, calls,
          encoder, decoder, binder, returned

vars == <<budget, logs, semantics, runtime, last, arena, calls,
          encoder, decoder, binder, returned>>

\* the flat Encoder and Decoder of a term, the binder in hand and what the last
\* call of the Binder trait returned
wire == <<encoder, decoder, binder, returned>>

\* the Runtime records allocated while a builtin is applied, and the calls of
\* Runtime::force and Runtime::push that allocated them
records == <<arena, calls>>

(***************************************************************************)
(* Bounds of the model.                                                    *)
(***************************************************************************)
\* longest byte string of ByteStrings
MaxLen == 2
\* largest magnitude of the operands of the integer arithmetic builtins
MaxInt == 3
\* cpu and mem units of the initial budget
MaxBudget == 2
\* most Runtime records allocated for one builtin
MaxArena == 4
\* most bytes written to the flat Encoder
MaxWire == 4
\* cpu and mem units of the budget of a chain of list builtins
MaxChain == 3

(***************************************************************************)
(* Arbitrary-precision integers (constant::Integer, a num::BigInt).        *)
(* An Integer is kept as                                                   *)
(*   w3 * 2^65536 + p * SCALAR_PERIOD + w2 * 2^128 + w1 * 2^64 + w0        *)
(* with small digits, so that values beyond the 64-bit and 128-bit machine *)
(* widths, around the multiples of the BLS12-381 scalar period and beyond  *)
(* the 8192-byte output limit, which the conversions of the code           *)
(* distinguish, are states of the model.  The digits are far below 2^63 in *)
(* magnitude, which makes the order lexicographic.                         *)
(***************************************************************************)
Huge(w3, w2, w1, w0) == [w3 |-> w3, p |-> 0, w2 |-> w2, w1 |-> w1, w0 |-> w0]

Big(w2, w1, w0) == Huge(0, w2, w1, w0)

Integer_from(n) == Big(0, 0, n)

\* p * SCALAR_PERIOD + w0
Periods(p, w0) == [Integer_from(w0) EXCEPT !.p = p]

IsSmall(x) == x.w3 = 0 /\ x.p = 0 /\ x.w2 = 0 /\ x.w1 = 0

Integer_lt(x, y) ==
    \/ x.w3 < y.w3
    \/ x.w3 = y.w3 /\ x.p < y.p
    \/ x.w3 = y.w3 /\ x.p = y.p /\ x.w2 < y.w2
    \/ x.w3 = y.w3 /\ x.p = y.p /\ x.w2 = y.w2 /\ x.w1 < y.w1
    \/ x.w3 = y.w3 /\ x.p = y.p /\ x.w2 = y.w2 /\ x.w1 = y.w1 /\ x.w0 < y.w0

Integer_le(x, y) == x = y \/ Integer_lt(x, y)

is_zero(x) == x = Integer_from(0)

is_negative(x) == Integer_lt(x, Integer_from(0))

Integer_neg(x) == [w3 |-> -x.w3, p |-> -x.p, w2 |-> -x.w2, w1 |-> -x.w1, w0 |-> -x.w0]

Integer_abs(x) == IF is_negative(x) THEN Integer_neg(x) ELSE x

\* Integer -> i128: the value fits when it has no digit from 2^128 up
FitsI128(x) == x.w3 = 0 /\ x.p = 0 /\ x.w2 = 0

\* Integer -> u64: 0 <= value < 2^64
FitsU64(x) ==
    /\ x.w3 = 0
    /\ x.p = 0
    /\ x.w2 = 0
    /\ \/ x.w1 = 0 /\ x.w0 >= 0
       \/ x.w1 = 1 /\ x.w0 < 0

\* i128 as usize: the value modulo 2^64, as a non-negative Integer
as_usize(x) == IF x.w0 >= 0 THEN Big(0, 0, x.w0) ELSE Big(0, 1, x.w0)

(***************************************************************************)
(* Values (machine::value::Value restricted to constants) and results.     *)
(***************************************************************************)
NoInt == Integer_from(0)

\* PlutusData: Constr(tag, fields), Map(pairs), List(items), Integer(n), ByteString(bs)
NoData == [c |-> "", tag |-> NoInt, n |-> NoInt, bs |-> <<>>, items |-> <<>>, pairs |-> <<>>]

PlutusData_constr(tag, fields) == [NoData EXCEPT !.c = "Constr", !.tag = tag, !.items = fields]

PlutusData_map(pairs) == [NoData EXCEPT !.c = "Map", !.pairs = pairs]

PlutusData_list(items) == [NoData EXCEPT !.c = "List", !.items = items]

PlutusData_integer(i) == [NoData EXCEPT !.c = "Integer", !.n = i]

PlutusData_byte_string(b) == [NoData EXCEPT !.c = "ByteString", !.bs = b]

\* a constant is its type tag t and the payload of that type; a list carries
\* its declared element type et and its elements l, a pair its two components in l
Value_integer(n) ==
    [t |-> "integer", n |-> n, bs |-> <<>>, s |-> "", b |-> FALSE, et |-> "", l |-> <<>>, d |-> NoData]

Value_byte_string(bs) ==
    [t |-> "bytestring", n |-> NoInt, bs |-> bs, s |-> "", b |-> FALSE, et |-> "", l |-> <<>>, d |-> NoData]

Value_string(s) ==
    [t |-> "string", n |-> NoInt, bs |-> <<>>, s |-> s, b |-> FALSE, et |-> "", l |-> <<>>, d |-> NoData]

Value_bool(b) ==
    [t |-> "bool", n |-> NoInt, bs |-> <<>>, s |-> "", b |-> b, et |-> "", l |-> <<>>, d |-> NoData]

Value_unit ==
    [t |-> "unit", n |-> NoInt, bs |-> <<>>, s |-> "", b |-> FALSE, et |-> "", l |-> <<>>, d |-> NoData]

\* Constant::Data(d)
Value_data(d) ==
    [t |-> "data", n |-> NoInt, bs |-> <<>>, s |-> "", b |-> FALSE, et |-> "", l |-> <<>>, d |-> d]

\* Constant::ProtoPair(left type, right type, left, right); typ names the two types
Value_pair(typ, left, right) ==
    [t |-> "pair", n |-> NoInt, bs |-> <<>>, s |-> "", b |-> FALSE, et |-> typ,
     l |-> <<left, right>>, d |-> NoData]

\* Constant::ProtoList(typ, items)
Value_list(typ, items) ==
    [t |-> "list", n |-> NoInt, bs |-> <<>>, s |-> "", b |-> FALSE, et |-> typ, l |-> items, d |-> NoData]

\* Result<&Value, MachineError>, or the process aborted by a panic
Ok(m, v) == [kind |-> "Ok", value |-> v, err |-> "", eargs |-> <<>>, m |-> m]

Err(m, name, eargs) ==
    [kind |-> "Err", value |-> Value_unit, err |-> name, eargs |-> eargs, m |-> m]

Panic(m, msg) ==
    [kind |-> "Panic", value |-> Value_unit, err |-> msg, eargs |-> <<>>, m |-> m]

\* unwrap_integer()?, unwrap_byte_string()?, ... : the type check of an argument
type_mismatch(m, expected, v) == Err(m, "type_mismatch", <<Value_string(expected), v>>)

(***************************************************************************)
(* Cost table and budget.  m is the machine during one call: its budget,   *)
(* its logs, its semantics and the cost entries it has debited so far.     *)
(***************************************************************************)
Machine(b, l, s) == [budget |-> b, logs |-> l, semantics |-> s, spent |-> <<>>]

\* costs.builtin_costs.<entry>(sizes): the (cpu, mem) cost of one dispatch
builtin_costs(entry) ==
    IF entry \in {"divide_integer", "quotient_integer", "remainder_integer", "mod_integer"}
    THEN [cpu |-> 2, mem |-> 1]
    ELSE [cpu |-> 1, mem |-> 1]

\* self.spend_budget(budget): debit, then fail when a counter went negative
spend_budget(m, entry) ==
    LET c == builtin_costs(entry)
    IN  [m EXCEPT !.budget = [cpu |-> m.budget.cpu - c.cpu, mem |-> m.budget.mem - c.mem],
                  !.spent = Append(m.spent, entry)]

out_of_budget(m) == m.budget.cpu < 0 \/ m.budget.mem < 0

(***************************************************************************)
(* num::Integer on small operands.                                         *)
(***************************************************************************)
\* div_rem: quotient truncated toward zero, remainder with the dividend's sign
TruncDiv(a, b) ==
    LET ua == IF a < 0 THEN -a ELSE a
        ub == IF b < 0 THEN -b ELSE b
        q  == ua \div ub
    IN  IF (a < 0) = (b < 0) THEN q ELSE -q

\* faulty variant of div_rem: the floored pair
div_rem_floored(a, b) ==
    LET q == IF b > 0 THEN a \div b ELSE (-a) \div (-b)
    IN  <<q, a - b * q>>

div_rem(a, b) == <<TruncDiv(a, b), a - b * TruncDiv(a, b)>>

\* div_mod_floor: quotient rounded toward minus infinity, modulus with the divisor's sign
div_mod_floor(a, b) ==
    LET q == TruncDiv(a, b)
        r == a - b * q
    IN  IF r # 0 /\ ((r < 0) # (b < 0)) THEN <<q - 1, r + b>> ELSE <<q, r>>

\* faulty variant of the error: the operands are swapped
division_by_zero_swapped(m, arg1, arg2) ==
    Err(m, "division_by_zero", <<Value_integer(arg2), Value_integer(arg1)>>)

division_by_zero(m, arg1, arg2) ==
    Err(m, "division_by_zero", <<Value_integer(arg1), Value_integer(arg2)>>)

\* DefaultFunction::DivideInteger
call_DivideInteger(m, args) ==
    IF args[1].t # "integer" THEN type_mismatch(m, "integer", args[1])
    ELSE IF args[2].t # "integer" THEN type_mismatch(m, "integer", args[2])
    ELSE LET arg1 == args[1].n
             arg2 == args[2].n
             m1   == spend_budget(m, "divide_integer")
         IN  IF out_of_budget(m1) THEN Err(m1, "out_of_budget", <<>>)
             ELSE IF ~is_zero(arg2)
                  THEN LET result == div_mod_floor(arg1.w0, arg2.w0)[1]
                       IN  Ok(m1, Value_integer(Integer_from(result)))
                  ELSE division_by_zero(m1, arg1, arg2)

\* DefaultFunction::QuotientInteger
call_QuotientInteger(m, args) ==
    IF args[1].t # "integer" THEN type_mismatch(m, "integer", args[1])
    ELSE IF args[2].t # "integer" THEN type_mismatch(m, "integer", args[2])
    ELSE LET arg1 == args[1].n
             arg2 == args[2].n
             m1   == spend_budget(m, "quotient_integer")
         IN  IF out_of_budget(m1) THEN Err(m1, "out_of_budget", <<>>)
             ELSE IF ~is_zero(arg2)
                  THEN LET quotient == div_rem(arg1.w0, arg2.w0)[1]
                       IN  Ok(m1, Value_integer(Integer_from(quotient)))
                  ELSE division_by_zero(m1, arg1, arg2)

\* DefaultFunction::RemainderInteger
call_RemainderInteger(m, args) ==
    IF args[1].t # "integer" THEN type_mismatch(m, "integer", args[1])
    ELSE IF args[2].t # "integer" THEN type_mismatch(m, "integer", args[2])
    ELSE LET arg1 == args[1].n
             arg2 == args[2].n
             m1   == spend_budget(m, "remainder_integer")
         IN  IF out_of_budget(m1) THEN Err(m1, "out_of_budget", <<>>)
             ELSE IF ~is_zero(arg2)
                  THEN LET remainder == div_rem(arg1.w0, arg2.w0)[2]
                       IN  Ok(m1, Value_integer(Integer_from(remainder)))
                  ELSE division_by_zero(m1, arg1, arg2)

\* DefaultFunction::ModInteger: the value built is arg1 % result, where result is
\* the floored modulus; BigInt's % is the truncated remainder and panics on a
\* zero right operand
call_ModInteger(m, args) ==
    IF args[1].t # "integer" THEN type_mismatch(m, "integer", args[1])
    ELSE IF args[2].t # "integer" THEN type_mismatch(m, "integer", args[2])
    ELSE LET arg1 == args[1].n
             arg2 == args[2].n
             m1   == spend_budget(m, "mod_integer")
         IN  IF out_of_budget(m1) THEN Err(m1, "out_of_budget", <<>>)
             ELSE IF ~is_zero(arg2)
                  THEN LET result == div_mod_floor(arg1.w0, arg2.w0)[2]
                       IN  IF result = 0
                           THEN Panic(m1, "attempt to divide by zero")
                           ELSE Ok(m1, Value_integer(Integer_from(div_rem(arg1.w0, result)[2])))
                  ELSE division_by_zero(m1, arg1, arg2)

(***************************************************************************)
(* Byte strings: sequences of u8.                                          *)
(***************************************************************************)
\* |value| modulo 256 with the sign of the value: BigInt's arg1 % 256
\* (2^64 and 2^128 are multiples of 256)
rem_256(x) ==
    IF is_negative(x) THEN -((-x.w0) % 256) ELSE x.w0 % 256

\* faulty variant of the range test: the upper limit is off by one
not_a_byte_off_by_one(arg1) ==
    Integer_lt(Integer_from(256), arg1) \/ Integer_lt(arg1, Integer_from(0))

\* the V2 range test of ConsByteString: *arg1 > 255 || *arg1 < 0
not_a_byte(arg1) ==
    Integer_lt(Integer_from(255), arg1) \/ Integer_lt(arg1, Integer_from(0))

\* DefaultFunction::ConsByteString
call_ConsByteString(m, args) ==
    IF args[1].t # "integer" THEN type_mismatch(m, "integer", args[1])
    ELSE IF args[2].t # "bytestring" THEN type_mismatch(m, "bytestring", args[2])
    ELSE LET arg1 == args[1].n
             arg2 == args[2].bs
             m1   == spend_budget(m, "cons_byte_string")
         IN  IF out_of_budget(m1) THEN Err(m1, "out_of_budget", <<>>)
             ELSE IF m1.semantics = "V1"
                  THEN LET wrap == rem_256(arg1)
                       IN  IF wrap < 0
                           THEN Panic(m1, "should cast to u64 just fine")
                           ELSE Ok(m1, Value_byte_string(<<wrap>> \o arg2))
                  ELSE IF not_a_byte(arg1)
                       THEN Err(m1, "byte_string_cons_not_a_byte", <<Value_integer(arg1)>>)
                       ELSE Ok(m1, Value_byte_string(<<arg1.w0>> \o arg2))

\* faulty variant of the clamp: a negative argument is not raised to 0
slice_clamp_negative_as_len(arg, len) ==
    IF Integer_le(Integer_from(len), arg) \/ Integer_lt(arg, Integer_from(0)) THEN len
    ELSE arg.w0

\* skip and take of SliceByteString as usize: 0 when negative, len when >= len
slice_clamp(arg, len) ==
    IF Integer_lt(arg, Integer_from(0)) THEN 0
    ELSE IF Integer_le(Integer_from(len), arg) THEN len
    ELSE arg.w0

\* DefaultFunction::SliceByteString
call_SliceByteString(m, args) ==
    IF args[1].t # "integer" THEN type_mismatch(m, "integer", args[1])
    ELSE IF args[2].t # "integer" THEN type_mismatch(m, "integer", args[2])
    ELSE IF args[3].t # "bytestring" THEN type_mismatch(m, "bytestring", args[3])
    ELSE LET arg1 == args[1].n
             arg2 == args[2].n
             arg3 == args[3].bs
             m1   == spend_budget(m, "slice_byte_string")
         IN  IF out_of_budget(m1) THEN Err(m1, "out_of_budget", <<>>)
             ELSE LET skip == slice_clamp(arg1, Len(arg3))
                      take == slice_clamp(arg2, Len(arg3))
                      skip_take == IF skip + take > Len(arg3) THEN Len(arg3) ELSE skip + take
                  IN  \* &arg3[skip..skip_take]: a slice whose start is beyond its end panics
                      IF skip > skip_take
                      THEN Panic(m1, "slice index starts after its end")
                      ELSE Ok(m1, Value_byte_string(SubSeq(arg3, skip + 1, skip_take)))

\* DefaultFunction::IndexByteString
call_IndexByteString(m, args) ==
    IF args[1].t # "bytestring" THEN type_mismatch(m, "bytestring", args[1])
    ELSE IF args[2].t # "integer" THEN type_mismatch(m, "integer", args[2])
    ELSE LET arg1 == args[1].bs
             arg2 == args[2].n
             m1   == spend_budget(m, "index_byte_string")
         IN  IF out_of_budget(m1) THEN Err(m1, "out_of_budget", <<>>)
             ELSE IF ~FitsI128(arg2)
                  THEN Panic(m1, "called Result::unwrap() on an Err value")
                  ELSE LET index == arg2
                       IN  IF Integer_le(Integer_from(0), index)
                              /\ Integer_lt(as_usize(index), Integer_from(Len(arg1)))
                           THEN Ok(m1, Value_integer(Integer_from(arg1[as_usize(index).w0 + 1])))
                           ELSE Err(m1, "byte_string_out_of_bounds",
                                    <<Value_byte_string(arg1), Value_integer(arg2)>>)

\* DefaultFunction::IfThenElse
call_IfThenElse(m, args) ==
    IF args[1].t # "bool" THEN type_mismatch(m, "bool", args[1])
    ELSE LET arg1 == args[1].b
             arg2 == args[2]
             arg3 == args[3]
         IN  IF arg1 THEN Ok(m, arg2) ELSE Ok(m, arg3)

\* DefaultFunction::ChooseUnit
call_ChooseUnit(m, args) ==
    IF args[1].t # "unit" THEN type_mismatch(m, "unit", args[1])
    ELSE LET arg2 == args[2]
             m1   == spend_budget(m, "choose_unit")
         IN  IF out_of_budget(m1) THEN Err(m1, "out_of_budget", <<>>)
             ELSE Ok(m1, arg2)

\* DefaultFunction::ChooseList
call_ChooseList(m, args) ==
    IF args[1].t # "list" THEN type_mismatch(m, "list", args[1])
    ELSE LET list == args[1].l
             arg2 == args[2]
             arg3 == args[3]
             m1   == spend_budget(m, "choose_list")
         IN  IF out_of_budget(m1) THEN Err(m1, "out_of_budget", <<>>)
             ELSE IF list = <<>> THEN Ok(m1, arg2) ELSE Ok(m1, arg3)

\* faulty variant of the match on the variant of the Data: Map and List exchanged
choose_data_map_as_list(arg1, arg2, arg3, arg4, arg5, arg6) ==
    CASE arg1.c = "Constr"     -> arg2
      [] arg1.c = "Map"        -> arg4
      [] arg1.c = "List"       -> arg3
      [] arg1.c = "Integer"    -> arg5
      [] arg1.c = "ByteString" -> arg6

\* match arg1 { Constr => arg2, Map => arg3, List => arg4, Integer => arg5, ByteString => arg6 }
choose_data(arg1, arg2, arg3, arg4, arg5, arg6) ==
    CASE arg1.c = "Constr"     -> arg2
      [] arg1.c = "Map"        -> arg3
      [] arg1.c = "List"       -> arg4
      [] arg1.c = "Integer"    -> arg5
      [] arg1.c = "ByteString" -> arg6

\* DefaultFunction::ChooseData
call_ChooseData(m, args) ==
    IF args[1].t # "data" THEN type_mismatch(m, "data", args[1])
    ELSE LET arg1 == args[1].d
             m1   == spend_budget(m, "choose_data")
         IN  IF out_of_budget(m1) THEN Err(m1, "out_of_budget", <<>>)
             ELSE Ok(m1, choose_data(arg1, args[2], args[3], args[4], args[5], args[6]))

\* faulty variant of Trace: the message is logged before the budget is debited
call_Trace_log_first(m, args) ==
    IF args[1].t # "string" THEN type_mismatch(m, "string", args[1])
    ELSE LET arg1 == args[1].s
             arg2 == args[2]
             m0   == [m EXCEPT !.logs = Append(m.logs, arg1)]
             m1   == spend_budget(m0, "trace")
         IN  IF out_of_budget(m1) THEN Err(m1, "out_of_budget", <<>>)
             ELSE Ok(m1, arg2)

\* DefaultFunction::Trace
call_Trace(m, args) ==
    IF args[1].t # "string" THEN type_mismatch(m, "string", args[1])
    ELSE LET arg1 == args[1].s
             arg2 == args[2]
             m1   == spend_budget(m, "trace")
         IN  IF out_of_budget(m1) THEN Err(m1, "out_of_budget", <<>>)
             ELSE Ok([m1 EXCEPT !.logs = Append(m1.logs, arg1)], arg2)

(***************************************************************************)
(* u8 arithmetic of the bitwise builtins.                                  *)
(***************************************************************************)
Pow2(k) == IF k = 0 THEN 1 ELSE IF k = 1 THEN 2 ELSE IF k = 2 THEN 4 ELSE IF k = 3 THEN 8
           ELSE IF k = 4 THEN 16 ELSE IF k = 5 THEN 32 ELSE IF k = 6 THEN 64
           ELSE IF k = 7 THEN 128 ELSE 256

\* bit i (0 = least significant) of the byte x
BitOf(x, i) == (x \div Pow2(i)) % 2

\* u8 << k and u8 >> k for 0 < k < 8: the bits shifted out are dropped
shl_u8(x, k) == (x * Pow2(k)) % 256

shr_u8(x, k) == x \div Pow2(k)

\* u8 | u8
bitor_u8(x, y) ==
    LET or(i) == IF BitOf(x, i) = 1 \/ BitOf(y, i) = 1 THEN Pow2(i) ELSE 0
    IN  or(0) + or(1) + or(2) + or(3) + or(4) + or(5) + or(6) + or(7)

\* DefaultFunction::ShiftByteString
call_ShiftByteString(m, args) ==
    IF args[1].t # "bytestring" THEN type_mismatch(m, "bytestring", args[1])
    ELSE IF args[2].t # "integer" THEN type_mismatch(m, "integer", args[2])
    ELSE LET bytes == args[1].bs
             shift == args[2].n
             abs   == Integer_abs(shift)
         IN  \* u64::try_from(shift.abs()).unwrap()
             IF ~FitsU64(abs) THEN Panic(m, "called Result::unwrap() on an Err value")
             ELSE
             LET m1 == spend_budget(m, "shift_byte_string")
                 length == Len(bytes)
                 zeros == [i \in 1..length |-> 0]
             IN  IF out_of_budget(m1) THEN Err(m1, "out_of_budget", <<>>)
                 ELSE IF Integer_le(Integer_from(length * 8), abs)
                 THEN Ok(m1, Value_byte_string(zeros))
                 ELSE
                 LET is_shift_left == ~is_negative(shift)
                     byte_shift == abs.w0 \div 8
                     bit_shift == abs.w0 % 8
                     complement_shift == 8 - bit_shift
                 IN  IF is_shift_left
                     THEN IF bit_shift = 0
                          THEN LET copy_len == length - bit_shift
                               IN  \* copy_from_slice panics unless both slices have one length
                                   IF copy_len # length - byte_shift
                                   THEN Panic(m1, "source slice length does not match destination slice length")
                                   ELSE Ok(m1, Value_byte_string(
                                            [i \in 1..length |-> bytes[byte_shift + i]]))
                          ELSE Ok(m1, Value_byte_string(
                                   [i \in 1..length |->
                                       IF i <= length - byte_shift
                                       THEN LET src_idx == i + byte_shift
                                            IN  bitor_u8(shl_u8(bytes[src_idx], bit_shift),
                                                         IF src_idx + 1 <= length
                                                         THEN shr_u8(bytes[src_idx + 1], complement_shift)
                                                         ELSE 0)
                                       ELSE 0]))
                     ELSE IF bit_shift = 0
                          THEN Ok(m1, Value_byte_string(
                                   [i \in 1..length |->
                                       IF i > byte_shift THEN bytes[i - byte_shift] ELSE 0]))
                          ELSE Ok(m1, Value_byte_string(
                                   [dst_idx \in 1..length |->
                                       IF dst_idx > byte_shift
                                       THEN LET i == dst_idx - byte_shift
                                            IN  bitor_u8(shr_u8(bytes[i], bit_shift),
                                                         IF i > 1
                                                         THEN shl_u8(bytes[i - 1], complement_shift)
                                                         ELSE 0)
                                       ELSE 0]))

(***************************************************************************)
(* Integer <-> byte string conversions.                                    *)
(***************************************************************************)
INTEGER_TO_BYTE_STRING_MAXIMUM_OUTPUT_LENGTH == 8192

\* the base-256 digits of n >= 0, least significant first, none for 0
RECURSIVE Digits256(_)
Digits256(n) == IF n = 0 THEN <<>> ELSE <<n % 256>> \o Digits256(n \div 256)

Zeros(k) == [i \in 1..k |-> 0]

Reverse(s) == [i \in 1..Len(s) |-> s[Len(s) + 1 - i]]

\* bls::SCALAR_PERIOD, the order of the BLS12-381 groups, big-endian
SCALAR_PERIOD_bytes ==
    <<115, 237, 167, 83, 41, 157, 125, 72, 51, 57, 216, 8, 9, 161, 216, 5,
      83, 189, 164, 2, 255, 254, 91, 254, 255, 255, 255, 255, 0, 0, 0, 1>>

\* the little-endian digits s plus the small d, positive or negative, carried upwards
RECURSIVE add_le(_, _)
add_le(s, d) ==
    IF s = <<>> THEN <<>>
    ELSE LET v == s[1] + d
         IN  <<v % 256>> \o add_le(Tail(s), v \div 256)

add_at(s, offset, d) == SubSeq(s, 1, offset) \o add_le(SubSeq(s, offset + 1, Len(s)), d)

\* BigUint::to_bytes_le of num.magnitude(): the minimal little-endian encoding, [0] for zero
\* (the magnitudes dispatched are SCALAR_PERIOD plus or minus small digits, or
\* have non-negative digits)
to_bytes_le(num) ==
    LET a  == Integer_abs(num)
        d0 == Digits256(a.w0)
        d1 == Digits256(a.w1)
        d2 == Digits256(a.w2)
        d3 == Digits256(a.w3)
        upto64    == d0 \o Zeros(8 - Len(d0))
        upto128   == upto64 \o d1 \o Zeros(8 - Len(d1))
        upto65536 == upto128 \o d2 \o Zeros(INTEGER_TO_BYTE_STRING_MAXIMUM_OUTPUT_LENGTH - 16 - Len(d2))
    IN  IF a.p = 1
        THEN add_at(add_at(add_le(Reverse(SCALAR_PERIOD_bytes), a.w0), 8, a.w1), 16, a.w2)
        ELSE IF a.w3 # 0 THEN upto65536 \o d3
        ELSE IF a.w2 # 0 THEN upto128 \o d2
        ELSE IF a.w1 # 0 THEN upto64 \o d1
        ELSE IF a.w0 # 0 THEN d0
        ELSE <<0>>

\* fn integer_to_bytes
integer_to_bytes(num, big_endian) ==
    IF big_endian THEN Reverse(to_bytes_le(num)) ELSE to_bytes_le(num)

\* position of the highest set bit of a byte x > 0
log2_u8(x) == CHOOSE k \in 0..7 : Pow2(k) <= x /\ x < Pow2(k + 1)

\* cost_model::integer_log2_x: floor(log2 |i|), 0 for zero
integer_log2_x(i) ==
    IF is_zero(i) THEN 0
    ELSE LET le == to_bytes_le(i)
         IN  log2_u8(le[Len(le)]) + 8 * (Len(le) - 1)

\* the value of the little-endian digits s, which is below 2^31
RECURSIVE ValueLe(_)
ValueLe(s) == IF s = <<>> THEN 0 ELSE s[1] + 256 * ValueLe(Tail(s))

\* the bytes i..j of s without their high zero bytes
Limb(s, i, j) ==
    LET nz == {k \in i..(IF j < Len(s) THEN j ELSE Len(s)) : s[k] # 0}
    IN  IF nz = {} THEN <<>>
        ELSE SubSeq(s, i, CHOOSE k \in nz : \A h \in nz : h <= k)

\* faulty variant of from_bytes_le: the most significant byte first
from_bytes_le_reversed(bytes) ==
    LET le == Reverse(bytes)
    IN  Huge(ValueLe(Limb(le, INTEGER_TO_BYTE_STRING_MAXIMUM_OUTPUT_LENGTH + 1, Len(le))),
             ValueLe(Limb(le, 17, INTEGER_TO_BYTE_STRING_MAXIMUM_OUTPUT_LENGTH)),
             ValueLe(Limb(le, 9, 16)),
             ValueLe(Limb(le, 1, 8)))

\* Integer::from_bytes_le(Sign::Plus, bytes)
from_bytes_le(bytes) ==
    Huge(ValueLe(Limb(bytes, INTEGER_TO_BYTE_STRING_MAXIMUM_OUTPUT_LENGTH + 1, Len(bytes))),
         ValueLe(Limb(bytes, 17, INTEGER_TO_BYTE_STRING_MAXIMUM_OUTPUT_LENGTH)),
         ValueLe(Limb(bytes, 9, 16)),
         ValueLe(Limb(bytes, 1, 8)))

\* Integer::from_bytes_be(Sign::Plus, bytes)
from_bytes_be(bytes) == from_bytes_le(Reverse(bytes))

\* faulty variant of the padding: the zero bytes go to the other end
pad_to_size_swapped(bytes, size_unwrapped, endianness) ==
    LET padding == Zeros(size_unwrapped - Len(bytes))
    IN  IF endianness THEN bytes \o padding ELSE padding \o bytes

\* the padding of the encoding up to size_unwrapped > 0 bytes
pad_to_size(bytes, size_unwrapped, endianness) ==
    LET padding == Zeros(size_unwrapped - Len(bytes))
    IN  IF endianness THEN padding \o bytes ELSE bytes \o padding

\* DefaultFunction::IntegerToByteString
call_IntegerToByteString(m, args) ==
    IF args[1].t # "bool" THEN type_mismatch(m, "bool", args[1])
    ELSE IF args[2].t # "integer" THEN type_mismatch(m, "integer", args[2])
    ELSE IF args[3].t # "integer" THEN type_mismatch(m, "integer", args[3])
    ELSE LET endianness == args[1].b
             size  == args[2].n
             input == args[3].n
             max   == Integer_from(INTEGER_TO_BYTE_STRING_MAXIMUM_OUTPUT_LENGTH)
         IN  IF is_negative(size)
             THEN Err(m, "integer_to_byte_string_negative_size", <<Value_integer(size)>>)
             ELSE IF Integer_lt(max, size)
             THEN Err(m, "integer_to_byte_string_size_too_big",
                      <<Value_integer(size), Value_integer(max)>>)
             ELSE
             LET m1 == spend_budget(m, "integer_to_byte_string")
                 \* size.try_into().unwrap(): 0 <= size <= 8192 here
                 size_unwrapped == size.w0
             IN  IF out_of_budget(m1) THEN Err(m1, "out_of_budget", <<>>)
                 ELSE IF is_zero(size) /\ integer_log2_x(input)
                                            >= 8 * INTEGER_TO_BYTE_STRING_MAXIMUM_OUTPUT_LENGTH
                 THEN LET required == integer_log2_x(input) \div 8 + 1
                      IN  Err(m1, "integer_to_byte_string_size_too_big",
                              <<Value_integer(Integer_from(required)), Value_integer(max)>>)
                 ELSE IF is_negative(input)
                 THEN Err(m1, "integer_to_byte_string_negative_input", <<Value_integer(input)>>)
                 ELSE IF is_zero(input)
                 THEN Ok(m1, Value_byte_string(Zeros(size_unwrapped)))
                 ELSE LET bytes == integer_to_bytes(input, endianness)
                      IN  IF ~is_zero(size) /\ Len(bytes) > size_unwrapped
                          THEN Err(m1, "integer_to_byte_string_size_too_small",
                                   <<Value_integer(size), Value_integer(Integer_from(Len(bytes)))>>)
                          ELSE IF size_unwrapped > 0
                          THEN Ok(m1, Value_byte_string(pad_to_size(bytes, size_unwrapped, endianness)))
                          ELSE Ok(m1, Value_byte_string(bytes))

\* DefaultFunction::ByteStringToInteger
call_ByteStringToInteger(m, args) ==
    IF args[1].t # "bool" THEN type_mismatch(m, "bool", args[1])
    ELSE IF args[2].t # "bytestring" THEN type_mismatch(m, "bytestring", args[2])
    ELSE LET endianness == args[1].b
             bytes == args[2].bs
             m1 == spend_budget(m, "byte_string_to_integer")
         IN  IF out_of_budget(m1) THEN Err(m1, "out_of_budget", <<>>)
             ELSE IF endianness
             THEN Ok(m1, Value_integer(from_bytes_be(bytes)))
             ELSE Ok(m1, Value_integer(from_bytes_le(bytes)))

(***************************************************************************)
(* Bitwise builtins.                                                       *)
(***************************************************************************)
\* 2^64 modulo d, for 0 < d < 2^15
pow2_64_mod(d) ==
    LET p16 == 65536 % d
        p32 == (p16 * p16) % d
    IN  (p32 * p32) % d

\* Integer::mod_floor of a shift below 2^64 in magnitude by d > 0
mod_floor(x, d) == (x.w1 * pow2_64_mod(d) + x.w0) % d

\* the two copy_from_slice of a rotation by whole bytes
rotate_bytes(bytes, byte_shift) ==
    LET length == Len(bytes)
        copy_len == length - byte_shift
    IN  [i \in 1..length |->
            IF i <= copy_len THEN bytes[byte_shift + i] ELSE bytes[i - copy_len]]

\* DefaultFunction::RotateByteString
call_RotateByteString(m, args) ==
    IF args[1].t # "bytestring" THEN type_mismatch(m, "bytestring", args[1])
    ELSE IF args[2].t # "integer" THEN type_mismatch(m, "integer", args[2])
    ELSE LET bytes == args[1].bs
             shift == args[2].n
         IN  \* u64::try_from(shift.abs()).unwrap()
             IF ~FitsU64(Integer_abs(shift))
             THEN Panic(m, "called Result::unwrap() on an Err value")
             ELSE
             LET m1 == spend_budget(m, "rotate_byte_string")
                 length == Len(bytes)
             IN  IF out_of_budget(m1) THEN Err(m1, "out_of_budget", <<>>)
                 ELSE IF length = 0 THEN Ok(m1, Value_byte_string(bytes))
                 ELSE
                 LET shift1 == mod_floor(shift, length * 8)
                     byte_shift == shift1 \div 8
                     bit_shift == shift1 % 8
                     complement_shift == 8 - bit_shift
                 IN  IF shift1 = 0 THEN Ok(m1, Value_byte_string(bytes))
                     ELSE IF bit_shift = 0
                     THEN Ok(m1, Value_byte_string(rotate_bytes(bytes, byte_shift)))
                     ELSE Ok(m1, Value_byte_string(
                              [dst \in 1..length |->
                                  IF dst <= length - byte_shift
                                  THEN LET src_idx == dst + byte_shift
                                       IN  bitor_u8(shl_u8(bytes[src_idx], bit_shift),
                                                    IF src_idx + 1 <= length
                                                    THEN shr_u8(bytes[src_idx + 1], complement_shift)
                                                    ELSE shr_u8(bytes[1], complement_shift))
                                  ELSE LET i == dst - (length - byte_shift)
                                       IN  bitor_u8(shl_u8(bytes[i], bit_shift),
                                                    IF i + 1 <= byte_shift
                                                    THEN shr_u8(bytes[i + 1], complement_shift)
                                                    ELSE shr_u8(bytes[byte_shift + 1],
                                                                complement_shift))]))

\* faulty variant of the bounds test: index 0 is refused too
bit_out_of_bounds_zero(bit_index, bytes) ==
    Integer_le(bit_index, Integer_from(0)) \/ Integer_le(Integer_from(Len(bytes) * 8), bit_index)

\* bit_index < 0 || bit_index >= bytes.len() * 8
bit_out_of_bounds(bit_index, bytes) ==
    is_negative(bit_index) \/ Integer_le(Integer_from(Len(bytes) * 8), bit_index)

\* DefaultFunction::ReadBit
call_ReadBit(m, args) ==
    IF args[1].t # "bytestring" THEN type_mismatch(m, "bytestring", args[1])
    ELSE IF args[2].t # "integer" THEN type_mismatch(m, "integer", args[2])
    ELSE LET bytes == args[1].bs
             bit_index == args[2].n
             m1 == spend_budget(m, "read_bit")
         IN  IF out_of_budget(m1) THEN Err(m1, "out_of_budget", <<>>)
             ELSE IF bytes = <<>> THEN Err(m1, "empty_byte_array", <<>>)
             ELSE IF bit_out_of_bounds(bit_index, bytes)
             THEN Err(m1, "read_bit_out_of_bounds",
                      <<Value_integer(bit_index), Value_integer(Integer_from(Len(bytes) * 8))>>)
             ELSE LET qr == div_rem(bit_index.w0, 8)
                      byte_index == qr[1]
                      bit_offset == qr[2]
                      flipped_index == Len(bytes) - 1 - byte_index
                      byte == bytes[flipped_index + 1]
                  IN  Ok(m1, Value_bool(BitOf(shr_u8(byte, bit_offset), 0) = 1))

\* faulty variant of the write: the bit is always set
write_bit_always_set(byte, bit_offset, set_bit) ==
    IF BitOf(byte, bit_offset) = 1 THEN byte ELSE byte + Pow2(bit_offset)

\* bytes[i] |= bit_mask, or bytes[i] &= !bit_mask
write_bit(byte, bit_offset, set_bit) ==
    IF set_bit
    THEN IF BitOf(byte, bit_offset) = 1 THEN byte ELSE byte + Pow2(bit_offset)
    ELSE IF BitOf(byte, bit_offset) = 1 THEN byte - Pow2(bit_offset) ELSE byte

\* the loop of WriteBits over the indices left: the bytes written, or the index refused
RECURSIVE write_bits_loop(_, _, _)
write_bits_loop(bytes, indices, set_bit) ==
    IF indices = <<>> THEN [ok |-> TRUE, bytes |-> bytes, index |-> Value_unit]
    ELSE LET index == Head(indices)
             bit_index == index.n
         IN  IF index.t # "integer"
             THEN [ok |-> FALSE, bytes |-> bytes, index |-> Value_unit]
             ELSE IF bit_out_of_bounds(bit_index, bytes)
             THEN [ok |-> FALSE, bytes |-> bytes, index |-> index]
             ELSE LET qr == div_rem(bit_index.w0, 8)
                      flipped_index == Len(bytes) - 1 - qr[1]
                  IN  write_bits_loop(
                          [bytes EXCEPT ![flipped_index + 1] = write_bit(@, qr[2], set_bit)],
                          Tail(indices), set_bit)

\* DefaultFunction::WriteBits
call_WriteBits(m, args) ==
    IF args[1].t # "bytestring" THEN type_mismatch(m, "bytestring", args[1])
    ELSE IF ~(args[2].t = "list" /\ args[2].et = "integer")
    THEN type_mismatch(m, "list integer", args[2])
    ELSE IF args[3].t # "bool" THEN type_mismatch(m, "bool", args[3])
    ELSE LET bytes == args[1].bs
             indices == args[2].l
             set_bit == args[3].b
             m1 == spend_budget(m, "write_bits")
         IN  IF out_of_budget(m1) THEN Err(m1, "out_of_budget", <<>>)
             ELSE LET w == write_bits_loop(bytes, indices, set_bit)
                  IN  IF w.ok THEN Ok(m1, Value_byte_string(w.bytes))
                      ELSE IF w.index.t # "integer"
                      THEN Panic(m1, "bit_index must be an integer")
                      ELSE Err(m1, "write_bits_out_of_bounds",
                               <<w.index, Value_integer(Integer_from(Len(bytes) * 8))>>)

\* u8 & u8 and u8 ^ u8
bitand_u8(x, y) ==
    LET and(i) == IF BitOf(x, i) = 1 /\ BitOf(y, i) = 1 THEN Pow2(i) ELSE 0
    IN  and(0) + and(1) + and(2) + and(3) + and(4) + and(5) + and(6) + and(7)

bitxor_u8(x, y) ==
    LET xor(i) == IF BitOf(x, i) # BitOf(y, i) THEN Pow2(i) ELSE 0
    IN  xor(0) + xor(1) + xor(2) + xor(3) + xor(4) + xor(5) + xor(6) + xor(7)

\* the closure of each arm: |a, b| a & b, a | b or a ^ b
apply_u8(op, x, y) ==
    CASE op = "&" -> bitand_u8(x, y)
      [] op = "|" -> bitor_u8(x, y)
      [] op = "^" -> bitxor_u8(x, y)

\* bytes.get(index).copied().unwrap_or(default), index counted from 1
get_or(bytes, index, default) == IF index <= Len(bytes) THEN bytes[index] ELSE default

\* faulty variant of the unpadded result: as long as the left operand
zip_bytes_left_len(left_bytes, right_bytes, op) ==
    [i \in 1..Len(left_bytes) |-> apply_u8(op, left_bytes[i], get_or(right_bytes, i, 0))]

\* left_bytes.iter().zip(right_bytes).map(op): as long as the shorter operand
zip_bytes(left_bytes, right_bytes, op) ==
    LET n == IF Len(left_bytes) < Len(right_bytes) THEN Len(left_bytes) ELSE Len(right_bytes)
    IN  [i \in 1..n |-> apply_u8(op, left_bytes[i], right_bytes[i])]

\* (0..max_len).map(...): as long as the longer operand, the shorter one continued by default
pad_bytes(left_bytes, right_bytes, op, default) ==
    LET max_len == IF Len(left_bytes) < Len(right_bytes) THEN Len(right_bytes) ELSE Len(left_bytes)
    IN  [i \in 1..max_len |->
            apply_u8(op, get_or(left_bytes, i, default), get_or(right_bytes, i, default))]

\* the arms of AndByteString, OrByteString and XorByteString, which differ in
\* their cost entry, their operation and the byte that continues the shorter operand
logical_byte_string(m, args, entry, op, default) ==
    IF args[1].t # "bool" THEN type_mismatch(m, "bool", args[1])
    ELSE IF args[2].t # "bytestring" THEN type_mismatch(m, "bytestring", args[2])
    ELSE IF args[3].t # "bytestring" THEN type_mismatch(m, "bytestring", args[3])
    ELSE LET should_pad == args[1].b
             left_bytes == args[2].bs
             right_bytes == args[3].bs
             m1 == spend_budget(m, entry)
         IN  IF out_of_budget(m1) THEN Err(m1, "out_of_budget", <<>>)
             ELSE IF should_pad
             THEN Ok(m1, Value_byte_string(pad_bytes(left_bytes, right_bytes, op, default)))
             ELSE Ok(m1, Value_byte_string(zip_bytes(left_bytes, right_bytes, op)))

\* DefaultFunction::AndByteString
call_AndByteString(m, args) == logical_byte_string(m, args, "and_byte_string", "&", 255)

\* DefaultFunction::OrByteString
call_OrByteString(m, args) == logical_byte_string(m, args, "or_byte_string", "|", 0)

\* DefaultFunction::XorByteString: its cost is read from the or_byte_string entry
call_XorByteString(m, args) == logical_byte_string(m, args, "or_byte_string", "^", 0)

\* u8::reverse_bits and u8::leading_zeros
reverse_bits(x) ==
    LET bit(i) == BitOf(x, i) * Pow2(7 - i)
    IN  bit(0) + bit(1) + bit(2) + bit(3) + bit(4) + bit(5) + bit(6) + bit(7)

leading_zeros(x) == IF x = 0 THEN 8 ELSE 7 - log2_u8(x)

\* faulty variant of the search: the bytes are visited from the first one
find_first_set_bit_forward(bytes) ==
    LET hits == {byte_index \in 0..(Len(bytes) - 1) : reverse_bits(bytes[byte_index + 1]) # 0}
    IN  IF hits = {} THEN -1
        ELSE LET byte_index == CHOOSE h \in hits : \A g \in hits : h <= g
             IN  leading_zeros(reverse_bits(bytes[byte_index + 1])) + byte_index * 8

\* bytes.iter().rev().enumerate().find_map(...).unwrap_or(-1)
find_first_set_bit(bytes) ==
    LET hits == {byte_index \in 0..(Len(bytes) - 1) :
                    reverse_bits(bytes[Len(bytes) - byte_index]) # 0}
    IN  IF hits = {} THEN -1
        ELSE LET byte_index == CHOOSE h \in hits : \A g \in hits : h <= g
             IN  leading_zeros(reverse_bits(bytes[Len(bytes) - byte_index])) + byte_index * 8

\* DefaultFunction::FindFirstSetBit
call_FindFirstSetBit(m, args) ==
    IF args[1].t # "bytestring" THEN type_mismatch(m, "bytestring", args[1])
    ELSE LET bytes == args[1].bs
             m1 == spend_budget(m, "find_first_set_bit")
         IN  IF out_of_budget(m1) THEN Err(m1, "out_of_budget", <<>>)
             ELSE Ok(m1, Value_integer(Integer_from(find_first_set_bit(bytes))))

(***************************************************************************)
(* BLS12-381 scalar multiplication.  A group element is the point it was   *)
(* made from and the scalar bytes handed to blst_p1_mult or blst_p2_mult,  *)
(* none for a point that is no product.                                    *)
(***************************************************************************)
Value_g1(point, scalar) ==
    [t |-> "bls12_381_G1_element", n |-> NoInt, bs |-> scalar, s |-> point, b |-> FALSE,
     et |-> "", l |-> <<>>, d |-> NoData]

Value_g2(point, scalar) ==
    [t |-> "bls12_381_G2_element", n |-> NoInt, bs |-> scalar, s |-> point, b |-> FALSE,
     et |-> "", l |-> <<>>, d |-> NoData]

\* size_of::<blst::blst_scalar>()
size_scalar == 32

\* Integer::mod_floor(&SCALAR_PERIOD): the result is in [0, SCALAR_PERIOD)
mod_floor_period(x) ==
    LET r == [x EXCEPT !.p = 0]
    IN  IF is_negative(r) THEN [r EXCEPT !.p = 1] ELSE r

\* arg1 % &*SCALAR_PERIOD: the remainder of the truncated division, zero or of the sign of arg1
rem_period(x) ==
    LET f == mod_floor_period(x)
    IN  IF is_negative(x) /\ ~is_zero(f) THEN [f EXCEPT !.p = f.p - 1] ELSE f

\* DefaultFunction::Bls12_381_G1_ScalarMul
call_Bls12_381_G1_ScalarMul(m, args) ==
    IF args[1].t # "integer" THEN type_mismatch(m, "integer", args[1])
    ELSE IF args[2].t # "bls12_381_G1_element"
    THEN type_mismatch(m, "bls12_381_G1_element", args[2])
    ELSE LET arg2 == args[2]
             m1 == spend_budget(m, "bls12_381_g1_scalar_mul")
             reduced == mod_floor_period(args[1].n)
             bytes == Reverse(to_bytes_le(reduced))
             arg1 == IF size_scalar > Len(bytes)
                     THEN Zeros(size_scalar - Len(bytes)) \o bytes
                     ELSE bytes
         IN  IF out_of_budget(m1) THEN Err(m1, "out_of_budget", <<>>)
             \* blst_scalar_from_bendian reads size_scalar bytes at arg1
             ELSE Ok(m1, Value_g1(arg2.s, SubSeq(arg1, 1, size_scalar)))

\* DefaultFunction::Bls12_381_G2_ScalarMul; the bytes of new_vec are set_len(diff)
\* without being written: uninit is what the arena memory held
call_Bls12_381_G2_ScalarMul(m, args, uninit) ==
    IF args[1].t # "integer" THEN type_mismatch(m, "integer", args[1])
    ELSE IF args[2].t # "bls12_381_G2_element"
    THEN type_mismatch(m, "bls12_381_G2_element", args[2])
    ELSE LET arg2 == args[2]
             m1 == spend_budget(m, "bls12_381_g2_scalar_mul")
             computation == rem_period(args[1].n)
             bytes == integer_to_bytes(computation, TRUE)
             arg1 == IF size_scalar > Len(bytes)
                     THEN [i \in 1..(size_scalar - Len(bytes)) |-> uninit] \o bytes
                     ELSE bytes
         IN  IF out_of_budget(m1) THEN Err(m1, "out_of_budget", <<>>)
             ELSE Ok(m1, Value_g2(arg2.s, SubSeq(arg1, 1, size_scalar)))

(***************************************************************************)
(* Data constructors and projections.                                      *)
(***************************************************************************)
\* fields.iter().map(|d| match d { Constant::Data(d) => *d, _ => unreachable!() })
all_data(fields) == \A i \in 1..Len(fields) : fields[i].t = "data"

data_of(fields) == [i \in 1..Len(fields) |-> fields[i].d]

\* faulty variant of the list of constants: in reverse order
constants_of_reversed(items) == [i \in 1..Len(items) |-> Value_data(items[Len(items) + 1 - i])]

\* list.iter().map(|d| Constant::data(self.arena, d))
constants_of(items) == [i \in 1..Len(items) |-> Value_data(items[i])]

\* DefaultFunction::ConstrData
call_ConstrData(m, args) ==
    IF args[1].t # "integer" THEN type_mismatch(m, "integer", args[1])
    ELSE IF args[2].t # "list" THEN type_mismatch(m, "list", args[2])
    ELSE LET tag == args[1].n
             typ == args[2].et
             fields == args[2].l
             m1 == spend_budget(m, "constr_data")
         IN  IF out_of_budget(m1) THEN Err(m1, "out_of_budget", <<>>)
             \* *typ != Type::Data
             ELSE IF typ # "data" THEN type_mismatch(m1, "data", args[2])
             \* tag.try_into().expect("should cast to u64 just fine")
             ELSE IF ~FitsU64(tag) THEN Panic(m1, "should cast to u64 just fine")
             ELSE IF ~all_data(fields)
             THEN Panic(m1, "internal error: entered unreachable code")
             ELSE Ok(m1, Value_data(PlutusData_constr(tag, data_of(fields))))

\* an item of the list of MapData is a ProtoPair(Data, Data, Data(key), Data(value))
is_data_pair(item) ==
    /\ item.t = "pair"
    /\ item.et = "pair(data,data)"
    /\ item.l[1].t = "data"
    /\ item.l[2].t = "data"

\* DefaultFunction::MapData
call_MapData(m, args) ==
    IF args[1].t # "list" THEN type_mismatch(m, "list", args[1])
    ELSE LET type == args[1].et
             list == args[1].l
         IN  IF type # "pair(data,data)" THEN type_mismatch(m, "list(pair(data,data))", args[1])
             ELSE LET m1 == spend_budget(m, "map_data")
                  IN  IF out_of_budget(m1) THEN Err(m1, "out_of_budget", <<>>)
                      ELSE IF \E i \in 1..Len(list) : ~is_data_pair(list[i])
                      THEN Panic(m1, "internal error: entered unreachable code")
                      ELSE Ok(m1, Value_data(PlutusData_map(
                               [i \in 1..Len(list) |->
                                   [k |-> list[i].l[1].d, v |-> list[i].l[2].d]])))

\* DefaultFunction::ListData
call_ListData(m, args) ==
    IF args[1].t # "list" THEN type_mismatch(m, "list", args[1])
    ELSE LET typ == args[1].et
             fields == args[1].l
             m1 == spend_budget(m, "list_data")
         IN  IF out_of_budget(m1) THEN Err(m1, "out_of_budget", <<>>)
             \* *typ != Type::Data
             ELSE IF typ # "data" THEN type_mismatch(m1, "data", args[1])
             ELSE IF ~all_data(fields)
             THEN Panic(m1, "internal error: entered unreachable code")
             ELSE Ok(m1, Value_data(PlutusData_list(data_of(fields))))

\* DefaultFunction::IData
call_IData(m, args) ==
    IF args[1].t # "integer" THEN type_mismatch(m, "integer", args[1])
    ELSE LET i == args[1].n
             m1 == spend_budget(m, "i_data")
         IN  IF out_of_budget(m1) THEN Err(m1, "out_of_budget", <<>>)
             ELSE Ok(m1, Value_data(PlutusData_integer(i)))

\* DefaultFunction::BData
call_BData(m, args) ==
    IF args[1].t # "bytestring" THEN type_mismatch(m, "bytestring", args[1])
    ELSE LET b == args[1].bs
             m1 == spend_budget(m, "b_data")
         IN  IF out_of_budget(m1) THEN Err(m1, "out_of_budget", <<>>)
             ELSE Ok(m1, Value_data(PlutusData_byte_string(b)))

\* unwrap_constant()?.unwrap_data()?.unwrap_<shape>()?
is_data_of(v, shape) == v.t = "data" /\ v.d.c = shape

\* DefaultFunction::UnConstrData
call_UnConstrData(m, args) ==
    IF ~is_data_of(args[1], "Constr") THEN type_mismatch(m, "data constr", args[1])
    ELSE LET tag == args[1].d.tag
             fields == args[1].d.items
             m1 == spend_budget(m, "un_constr_data")
         IN  IF out_of_budget(m1) THEN Err(m1, "out_of_budget", <<>>)
             \* *tag as i128: every u64 is its own i128
             ELSE Ok(m1, Value_pair("pair(integer,list(data))",
                                    Value_integer(tag),
                                    Value_list("data", constants_of(fields))))

\* DefaultFunction::UnMapData
call_UnMapData(m, args) ==
    IF ~is_data_of(args[1], "Map") THEN type_mismatch(m, "data map", args[1])
    ELSE LET map == args[1].d.pairs
             m1 == spend_budget(m, "un_map_data")
         IN  IF out_of_budget(m1) THEN Err(m1, "out_of_budget", <<>>)
             ELSE Ok(m1, Value_list("pair(data,data)",
                                    [i \in 1..Len(map) |->
                                        Value_pair("pair(data,data)",
                                                   Value_data(map[i].k), Value_data(map[i].v))]))

\* DefaultFunction::UnListData
call_UnListData(m, args) ==
    IF ~is_data_of(args[1], "List") THEN type_mismatch(m, "data list", args[1])
    ELSE LET list == args[1].d.items
             m1 == spend_budget(m, "un_list_data")
         IN  IF out_of_budget(m1) THEN Err(m1, "out_of_budget", <<>>)
             ELSE Ok(m1, Value_list("data", constants_of(list)))

\* DefaultFunction::UnIData
call_UnIData(m, args) ==
    IF ~is_data_of(args[1], "Integer") THEN type_mismatch(m, "data integer", args[1])
    ELSE LET i == args[1].d.n
             m1 == spend_budget(m, "un_i_data")
         IN  IF out_of_budget(m1) THEN Err(m1, "out_of_budget", <<>>)
             ELSE Ok(m1, Value_integer(i))

\* DefaultFunction::UnBData
call_UnBData(m, args) ==
    IF ~is_data_of(args[1], "ByteString") THEN type_mismatch(m, "data bytestring", args[1])
    ELSE LET bs == args[1].d.bs
             m1 == spend_budget(m, "un_b_data")
         IN  IF out_of_budget(m1) THEN Err(m1, "out_of_budget", <<>>)
             ELSE Ok(m1, Value_byte_string(bs))

\* Constant::type_of: the Type of a constant, written as the declared element
\* and component types are
type_of(v) ==
    CASE v.t = "list" -> "list(" \o v.et \o ")"
      [] v.t = "pair" -> v.et
      [] OTHER -> v.t

\* DefaultFunction::SndPair
call_SndPair(m, args) ==
    IF args[1].t # "pair" THEN type_mismatch(m, "pair", args[1])
    ELSE LET second == args[1].l[2]
             m1 == spend_budget(m, "snd_pair")
         IN  IF out_of_budget(m1) THEN Err(m1, "out_of_budget", <<>>)
             ELSE Ok(m1, second)

\* faulty variant of the new list of MkCons: the item is pushed last
new_list_item_last(item, list) == Append(list, item)

\* new_list.push(item); new_list.extend_from_slice(list)
new_list(item, list) == <<item>> \o list

\* DefaultFunction::MkCons
call_MkCons(m, args) ==
    IF args[2].t # "list" THEN type_mismatch(m, "list", args[2])
    ELSE LET item == args[1]
             typ == args[2].et
             list == args[2].l
             m1 == spend_budget(m, "mk_cons")
         IN  IF out_of_budget(m1) THEN Err(m1, "out_of_budget", <<>>)
             ELSE IF type_of(item) # typ THEN Err(m1, "mk_cons_type_mismatch", <<item>>)
             ELSE Ok(m1, Value_list(typ, new_list(item, list)))

\* DefaultFunction::HeadList
call_HeadList(m, args) ==
    IF args[1].t # "list" THEN type_mismatch(m, "list", args[1])
    ELSE LET list == args[1].l
             m1 == spend_budget(m, "head_list")
         IN  IF out_of_budget(m1) THEN Err(m1, "out_of_budget", <<>>)
             ELSE IF list = <<>> THEN Err(m1, "empty_list", <<args[1]>>)
             ELSE Ok(m1, list[1])

\* DefaultFunction::TailList
call_TailList(m, args) ==
    IF args[1].t # "list" THEN type_mismatch(m, "list", args[1])
    ELSE LET t1 == args[1].et
             list == args[1].l
             m1 == spend_budget(m, "tail_list")
         IN  IF out_of_budget(m1) THEN Err(m1, "out_of_budget", <<>>)
             ELSE IF list = <<>> THEN Err(m1, "empty_list", <<args[1]>>)
             ELSE Ok(m1, Value_list(t1, Tail(list)))

\* DefaultFunction::MkNilData
call_MkNilData(m, args) ==
    IF args[1].t # "unit" THEN type_mismatch(m, "unit", args[1])
    ELSE LET m1 == spend_budget(m, "mk_nil_data")
         IN  IF out_of_budget(m1) THEN Err(m1, "out_of_budget", <<>>)
             ELSE Ok(m1, Value_list("data", <<>>))

\* DefaultFunction::MkNilPairData
call_MkNilPairData(m, args) ==
    IF args[1].t # "unit" THEN type_mismatch(m, "unit", args[1])
    ELSE LET m1 == spend_budget(m, "mk_nil_pair_data")
         IN  IF out_of_budget(m1) THEN Err(m1, "out_of_budget", <<>>)
             ELSE Ok(m1, Value_list("pair(data,data)", <<>>))

\* DefaultFunction::SerialiseData => todo!()
call_SerialiseData(m, args) == Panic(m, "not yet implemented")

\* cryptoxide::ed25519::verify: a deterministic predicate of the message, the
\* 32-byte key and the 64-byte signature
ed25519_verify(message, public_key, signature) ==
    get_or(signature, 1, 0) = (get_or(public_key, 1, 0) + Len(message)) % 256

\* faulty variant of the conversion of a slice to an array: shorter slices pass
try_into_array_at_most(bytes, n) == Len(bytes) <= n

\* <[u8; n]>::try_from(bytes) succeeds for slices of exactly n bytes
try_into_array(bytes, n) == Len(bytes) = n

\* DefaultFunction::VerifyEd25519Signature
call_VerifyEd25519Signature(m, args) ==
    IF args[1].t # "bytestring" THEN type_mismatch(m, "bytestring", args[1])
    ELSE IF args[2].t # "bytestring" THEN type_mismatch(m, "bytestring", args[2])
    ELSE IF args[3].t # "bytestring" THEN type_mismatch(m, "bytestring", args[3])
    ELSE LET public_key == args[1].bs
             message == args[2].bs
             signature == args[3].bs
             m1 == spend_budget(m, "verify_ed25519_signature")
         IN  IF out_of_budget(m1) THEN Err(m1, "out_of_budget", <<>>)
             ELSE IF ~try_into_array(public_key, 32)
             THEN Err(m1, "unexpected_ed25519_public_key_length", <<>>)
             ELSE IF ~try_into_array(signature, 64)
             THEN Err(m1, "unexpected_ed25519_signature_length", <<>>)
             ELSE Ok(m1, Value_bool(ed25519_verify(message, public_key, signature)))

(***************************************************************************)
(* Machine::call: the match on runtime.fun.  Each arm is an operator       *)
(* call_<fun> above and an action <fun> of the machine below.              *)
(***************************************************************************)
\* the entry of the cost table that belongs to each builtin
CostEntry(fun) ==
    CASE fun = "DivideInteger"    -> "divide_integer"
      [] fun = "QuotientInteger"  -> "quotient_integer"
      [] fun = "RemainderInteger" -> "remainder_integer"
      [] fun = "ModInteger"       -> "mod_integer"
      [] fun = "ConsByteString"   -> "cons_byte_string"
      [] fun = "SliceByteString"  -> "slice_byte_string"
      [] fun = "IndexByteString"  -> "index_byte_string"
      [] fun = "IfThenElse"       -> "if_then_else"
      [] fun = "Trace"            -> "trace"
      [] fun = "ShiftByteString"  -> "shift_byte_string"
      [] fun = "IntegerToByteString" -> "integer_to_byte_string"
      [] fun = "ByteStringToInteger" -> "byte_string_to_integer"
      [] fun = "RotateByteString" -> "rotate_byte_string"
      [] fun = "ReadBit" -> "read_bit"
      [] fun = "WriteBits" -> "write_bits"
      [] fun = "AndByteString" -> "and_byte_string"
      [] fun = "OrByteString" -> "or_byte_string"
      [] fun = "XorByteString" -> "xor_byte_string"
      [] fun = "FindFirstSetBit" -> "find_first_set_bit"
      [] fun = "Bls12_381_G1_ScalarMul" -> "bls12_381_g1_scalar_mul"
      [] fun = "Bls12_381_G2_ScalarMul" -> "bls12_381_g2_scalar_mul"
      [] fun = "ConstrData" -> "constr_data"
      [] fun = "MapData" -> "map_data"
      [] fun = "ListData" -> "list_data"
      [] fun = "IData" -> "i_data"
      [] fun = "BData" -> "b_data"
      [] fun = "UnConstrData" -> "un_constr_data"
      [] fun = "UnMapData" -> "un_map_data"
      [] fun = "UnListData" -> "un_list_data"
      [] fun = "UnIData" -> "un_i_data"
      [] fun = "UnBData" -> "un_b_data"
      [] fun = "ChooseUnit" -> "choose_unit"
      [] fun = "ChooseList" -> "choose_list"
      [] fun = "ChooseData" -> "choose_data"
      [] fun = "VerifyEd25519Signature" -> "verify_ed25519_signature"
      [] fun = "MkCons" -> "mk_cons"
      [] fun = "HeadList" -> "head_list"
      [] fun = "TailList" -> "tail_list"
      [] fun = "MkNilData" -> "mk_nil_data"
      [] fun = "MkNilPairData" -> "mk_nil_pair_data"
      [] fun = "SndPair" -> "snd_pair"
      [] fun = "SerialiseData" -> "serialise_data"
      [] OTHER                    -> "none"

(***************************************************************************)
(* Arguments dispatched.                                                   *)
(***************************************************************************)
ByteSamples == {0, 178}

ByteStrings == UNION {[1..n -> ByteSamples] : n \in 0..MaxLen}

SmallInts == {Integer_from(n) : n \in (-MaxInt)..MaxInt}

\* integers around and beyond the 64-bit and 128-bit widths
WideInts == {Big(0, 1, 0), Big(0, 1, -1), Big(0, -1, 0), Big(1, 0, 0), Big(-1, 0, 0)}

ByteInts == {Integer_from(n) : n \in {-257, -256, -1, 0, 1, 178, 255, 256, 257}}

SliceInts == {Integer_from(n) : n \in -1..(MaxLen + 1)} \cup {Big(0, 1, 1), Big(-1, 0, 0)}

IndexInts == {Integer_from(n) : n \in -1..(MaxLen + 1)} \cup WideInts \cup {Big(0, 1, 1)}

ShiftInts ==
    {Integer_from(n) : n \in (-(8 * MaxLen + 1))..(8 * MaxLen + 1)}
      \cup {Big(0, 1, 0), Big(0, 1, -1), Big(0, -1, 0), Big(0, -1, 1)}

Messages == {"hi", "lo"}

IntegerPairs ==
    {<<Value_integer(a), Value_integer(b)>> : a \in SmallInts, b \in SmallInts}
      \cup {<<Value_unit, Value_integer(Integer_from(1))>>,
            <<Value_integer(Integer_from(1)), Value_bool(TRUE)>>}

ConsArgs ==
    {<<Value_integer(n), Value_byte_string(bs)>> : n \in ByteInts \cup WideInts, bs \in ByteStrings}
      \cup {<<Value_byte_string(<<>>), Value_byte_string(<<>>)>>,
            <<Value_integer(Integer_from(1)), Value_integer(Integer_from(1))>>}

SliceArgs ==
    {<<Value_integer(skip), Value_integer(take), Value_byte_string(bs)>> :
        skip \in SliceInts, take \in SliceInts, bs \in ByteStrings}
      \cup {<<Value_unit, Value_integer(Integer_from(1)), Value_byte_string(<<>>)>>,
            <<Value_integer(Integer_from(1)), Value_unit, Value_byte_string(<<>>)>>,
            <<Value_integer(Integer_from(1)), Value_integer(Integer_from(1)), Value_unit>>}

IndexArgs ==
    {<<Value_byte_string(bs), Value_integer(i)>> : bs \in ByteStrings, i \in IndexInts}
      \cup {<<Value_unit, Value_integer(Integer_from(0))>>,
            <<Value_byte_string(<<0>>), Value_unit>>}

IfThenElseArgs ==
    {<<Value_bool(c), a, b>> :
        c \in BOOLEAN,
        a \in {Value_integer(Integer_from(1)), Value_unit},
        b \in {Value_integer(Integer_from(2)), Value_string("hi")}}
      \cup {<<Value_unit, Value_unit, Value_unit>>}

TraceArgs ==
    {<<Value_string(msg), v>> : msg \in Messages, v \in {Value_integer(Integer_from(9)), Value_unit}}
      \cup {<<Value_integer(Integer_from(9)), Value_unit>>}

ShiftArgs ==
    {<<Value_byte_string(bs), Value_integer(n)>> : bs \in ByteStrings, n \in ShiftInts}
      \cup {<<Value_unit, Value_integer(Integer_from(1))>>,
            <<Value_byte_string(<<>>), Value_unit>>}

\* sizes around 0, the encoded lengths and the 8192-byte limit
SizeInts ==
    {Integer_from(n) : n \in {-1, 0, 1, 2, 3, 9,
                              INTEGER_TO_BYTE_STRING_MAXIMUM_OUTPUT_LENGTH,
                              INTEGER_TO_BYTE_STRING_MAXIMUM_OUTPUT_LENGTH + 1}}
      \cup {Big(0, 1, 0)}

\* inputs of 0, 1, 2, 3, 9, 17 and 8193 bytes, and negative ones
EncodedInts ==
    {Integer_from(n) : n \in {-1, 0, 1, 178, 258, 45569, 66051}}
      \cup {Big(0, 1, 0), Big(0, 1, 5), Big(1, 0, 2), Huge(1, 0, 0, 0), Huge(-1, 0, 0, 0)}

IntegerToByteStringArgs ==
    {<<Value_bool(e), Value_integer(size), Value_integer(input)>> :
        e \in BOOLEAN, size \in SizeInts, input \in EncodedInts}
      \cup {<<Value_unit, Value_integer(Integer_from(1)), Value_integer(Integer_from(1))>>,
            <<Value_bool(TRUE), Value_unit, Value_integer(Integer_from(1))>>,
            <<Value_bool(TRUE), Value_integer(Integer_from(1)), Value_unit>>}

\* the value of bytes read in the byte order e has digits the model can hold
Representable(bytes, e) ==
    LET le == IF e THEN Reverse(bytes) ELSE bytes
    IN  /\ Len(Limb(le, 1, 8)) <= 3
        /\ Len(Limb(le, 9, 16)) <= 3
        /\ Len(Limb(le, 17, INTEGER_TO_BYTE_STRING_MAXIMUM_OUTPUT_LENGTH)) <= 3
        /\ Len(Limb(le, INTEGER_TO_BYTE_STRING_MAXIMUM_OUTPUT_LENGTH + 1, Len(le))) <= 3

\* the encodings IntegerToByteString returns in the byte order e
Encodings(e) ==
    LET m0 == Machine([cpu |-> MaxBudget, mem |-> MaxBudget], <<>>, "V2")
        rs == {call_IntegerToByteString(m0, args) :
                  args \in {args \in IntegerToByteStringArgs : args[1] = Value_bool(e)}}
    IN  {r.value.bs : r \in {r \in rs : r.kind = "Ok"}}

ByteStringToIntegerArgs ==
    {<<Value_bool(e), Value_byte_string(bs)>> : e \in BOOLEAN, bs \in ByteStrings}
      \cup {<<Value_bool(e), Value_byte_string(bs)>> :
              e \in {TRUE}, bs \in {bs \in Encodings(TRUE) : Representable(bs, TRUE)}}
      \cup {<<Value_bool(e), Value_byte_string(bs)>> :
              e \in {FALSE}, bs \in {bs \in Encodings(FALSE) : Representable(bs, FALSE)}}
      \cup {<<Value_unit, Value_byte_string(<<>>)>>,
            <<Value_bool(TRUE), Value_unit>>}

RotateArgs ==
    {<<Value_byte_string(bs), Value_integer(n)>> : bs \in ByteStrings, n \in ShiftInts}
      \cup {<<Value_unit, Value_integer(Integer_from(1))>>,
            <<Value_byte_string(<<>>), Value_unit>>}

BitInts == {Integer_from(n) : n \in {-1, 0, 3, 9, 8 * MaxLen - 1, 8 * MaxLen}} \cup {Big(0, 1, 0)}

ReadBitArgs ==
    {<<Value_byte_string(bs), Value_integer(i)>> : bs \in ByteStrings, i \in BitInts \cup WideInts}
      \cup {<<Value_unit, Value_integer(Integer_from(0))>>,
            <<Value_byte_string(<<178>>), Value_unit>>}

IndexLists ==
    {Value_list("integer", l) :
        l \in UNION {[1..n -> {Value_integer(i) : i \in BitInts}] : n \in 0..2}}

WriteBitsArgs ==
    {<<Value_byte_string(bs), indices, Value_bool(v)>> :
        bs \in ByteStrings, indices \in IndexLists, v \in BOOLEAN}
      \cup {<<Value_unit, Value_list("integer", <<>>), Value_bool(TRUE)>>,
            <<Value_byte_string(<<178>>), Value_list("bool", <<>>), Value_bool(TRUE)>>,
            <<Value_byte_string(<<178>>), Value_integer(Integer_from(0)), Value_bool(TRUE)>>,
            <<Value_byte_string(<<178>>), Value_list("integer", <<>>), Value_unit>>}

\* byte strings of known bit patterns, up to one byte longer than each other
LogicalBytes == {<<>>, <<178>>, <<15>>, <<178, 15>>, <<240, 85>>} \cup ByteStrings

LogicalArgs ==
    {<<Value_bool(pad), Value_byte_string(a), Value_byte_string(b)>> :
        pad \in BOOLEAN, a \in LogicalBytes, b \in LogicalBytes}
      \cup {<<Value_unit, Value_byte_string(<<>>), Value_byte_string(<<>>)>>,
            <<Value_bool(TRUE), Value_unit, Value_byte_string(<<>>)>>,
            <<Value_bool(TRUE), Value_byte_string(<<>>), Value_unit>>}

FindFirstSetBitArgs ==
    {<<Value_byte_string(bs)>> : bs \in ByteStrings \cup {<<128>>, <<128, 0>>, <<1, 128>>}}
      \cup {<<Value_unit>>}

\* scalars around 0 and around the multiples of SCALAR_PERIOD
ScalarInts ==
    {Integer_from(n) : n \in {-2, -1, 0, 1, 258}}
      \cup {Big(0, 1, 0), Big(0, -1, 0), Big(1, 0, 2)}
      \cup {Periods(p, w0) : p \in {-2, -1, 1, 2}, w0 \in {-1, 0, 1}}

\* what set_len leaves in bytes that are not written
UninitBytes == {0, 171}

G1ScalarMulArgs ==
    {<<Value_integer(k), Value_g1("G", <<>>)>> : k \in ScalarInts}
      \cup {<<Value_unit, Value_g1("G", <<>>)>>,
            <<Value_integer(Integer_from(1)), Value_g2("H", <<>>)>>}

G2ScalarMulArgs ==
    {<<Value_integer(k), Value_g2("H", <<>>)>> : k \in ScalarInts}
      \cup {<<Value_unit, Value_g2("H", <<>>)>>,
            <<Value_integer(Integer_from(1)), Value_g1("G", <<>>)>>}

\* Data of every shape, nested once
DataSamples ==
    LET one  == PlutusData_integer(Integer_from(1))
        wide == PlutusData_integer(Big(0, 1, 0))
        b    == PlutusData_byte_string(<<178>>)
    IN  {one, wide, b,
         PlutusData_list(<<one, b>>),
         PlutusData_constr(Integer_from(0), <<b>>),
         PlutusData_map(<<[k |-> one, v |-> b]>>)}

\* homogeneous lists of Data
DataLists ==
    {Value_list("data", l) :
        l \in UNION {[1..n -> {Value_data(d) : d \in DataSamples}] : n \in 0..2}}

\* homogeneous lists of pairs of Data: repeated keys and repeated pairs included
DataPairs ==
    LET one == PlutusData_integer(Integer_from(1))
        b   == PlutusData_byte_string(<<178>>)
    IN  {Value_pair("pair(data,data)", Value_data(q[1]), Value_data(q[2])) :
            q \in {<<one, b>>, <<one, one>>, <<b, PlutusData_list(<<one>>)>>}}

PairLists ==
    {Value_list("pair(data,data)", l) : l \in UNION {[1..n -> DataPairs] : n \in 0..2}}

\* lists whose declared element type is not Data, empty and not
NotDataLists ==
    {Value_list("integer", <<>>),
     Value_list("integer", <<Value_integer(Integer_from(1))>>),
     Value_list("pair(data,data)", <<>>)}

\* lists whose declared element type is not Pair(Data, Data), empty and not
NotPairLists ==
    {Value_list("data", <<>>),
     Value_list("data", <<Value_data(PlutusData_integer(Integer_from(1)))>>),
     Value_list("pair(integer,data)", <<>>),
     Value_list("pair(integer,data)",
                <<Value_pair("pair(integer,data)", Value_integer(Integer_from(1)),
                             Value_data(PlutusData_integer(Integer_from(1))))>>)}

\* tags inside and outside the unsigned 64-bit range
TagInts == {Integer_from(-1), Integer_from(0), Integer_from(1), Big(0, 1, -1), Big(0, 1, 0)}

ConstrDataArgs ==
    {<<Value_integer(tag), fields>> : tag \in TagInts, fields \in DataLists \cup NotDataLists}
      \cup {<<Value_unit, Value_list("data", <<>>)>>,
            <<Value_integer(Integer_from(0)), Value_unit>>}

MapDataArgs == {<<list>> : list \in PairLists \cup NotPairLists \cup {Value_unit}}

ListDataArgs == {<<fields>> : fields \in DataLists \cup NotDataLists \cup {Value_unit}}

IDataArgs == {<<Value_integer(i)>> : i \in SmallInts \cup WideInts} \cup {<<Value_unit>>}

BDataArgs == {<<Value_byte_string(b)>> : b \in ByteStrings} \cup {<<Value_unit>>}

\* the values a builtin returns for a set of arguments
Made(results) == {r.value : r \in {r \in results : r.kind = "Ok"}}

FullMachine == Machine([cpu |-> MaxBudget, mem |-> MaxBudget], <<>>, "V2")

\* the Data the constructors return, and other constants
DataArgs ==
    {<<v>> : v \in Made({call_ConstrData(FullMachine, args) : args \in ConstrDataArgs})
                 \cup Made({call_MapData(FullMachine, args) : args \in MapDataArgs})
                 \cup Made({call_ListData(FullMachine, args) : args \in ListDataArgs})
                 \cup Made({call_IData(FullMachine, args) : args \in IDataArgs})
                 \cup Made({call_BData(FullMachine, args) : args \in BDataArgs})
                 \cup {Value_unit, Value_integer(Integer_from(1))}}

\* branches of every kind of value
Branches ==
    {Value_integer(Integer_from(1)), Value_unit, Value_string("hi"),
     Value_list("data", <<Value_data(PlutusData_integer(Integer_from(1)))>>)}

ChooseUnitArgs ==
    {<<Value_unit, a>> : a \in Branches} \cup {<<Value_bool(TRUE), Value_unit>>}

ChooseListArgs ==
    {<<list, a, b>> :
        list \in {Value_list("data", <<>>), Value_list("integer", <<>>),
                  Value_list("integer", <<Value_integer(Integer_from(1))>>),
                  Value_list("data", <<Value_data(PlutusData_integer(Integer_from(1))),
                                       Value_data(PlutusData_byte_string(<<178>>))>>)},
        a \in Branches, b \in Branches}
      \cup {<<Value_unit, Value_unit, Value_unit>>}

ChooseDataArgs ==
    {<<Value_data(d), Value_integer(Integer_from(1)), Value_unit, Value_string("hi"),
       Value_bool(TRUE), Value_byte_string(<<178>>)>> : d \in DataSamples}
      \cup {<<Value_data(d), Value_unit, Value_unit, Value_string("hi"),
              Value_string("hi"), Value_unit>> : d \in DataSamples}
      \cup {<<Value_integer(Integer_from(1)), Value_unit, Value_unit, Value_unit,
              Value_unit, Value_unit>>}

\* n bytes b
Replicate(n, b) == [i \in 1..n |-> b]

\* keys and signatures of the right length, one byte short, one byte long and empty
VerifyEd25519SignatureArgs ==
    {<<Value_byte_string(Replicate(k, pb)), Value_byte_string(msg),
       Value_byte_string(Replicate(g, sb))>> :
        k \in {0, 31, 32, 33}, pb \in {1}, msg \in {<<>>, <<178>>},
        g \in {0, 63, 64, 65}, sb \in {1, 2}}
      \cup {<<Value_unit, Value_byte_string(<<>>), Value_byte_string(Replicate(64, 1))>>,
            <<Value_byte_string(Replicate(32, 1)), Value_byte_string(<<>>), Value_unit>>}

\* the items MkCons puts in front of a list: of the element type and not
ConsItems ==
    {Value_integer(Integer_from(1)), Value_data(PlutusData_integer(Integer_from(1))),
     Value_data(PlutusData_list(<<PlutusData_byte_string(<<178>>)>>)),
     Value_pair("pair(data,data)", Value_data(PlutusData_integer(Integer_from(1))),
                Value_data(PlutusData_byte_string(<<178>>))),
     Value_list("data", <<>>)}

\* homogeneous lists of integers, of Data, of pairs of Data and of lists of Data
ConsLists ==
    {Value_list("integer", <<>>),
     Value_list("integer", <<Value_integer(Integer_from(2))>>),
     Value_list("data", <<>>),
     Value_list("data", <<Value_data(PlutusData_byte_string(<<178>>))>>),
     Value_list("pair(data,data)", <<>>),
     Value_list("list(data)", <<Value_list("data", <<>>)>>)}

MkConsArgs ==
    {<<item, list>> : item \in ConsItems, list \in ConsLists}
      \cup {<<Value_unit, Value_unit>>}

HeadListArgs == {<<list>> : list \in ConsLists \cup DataLists \cup PairLists \cup {Value_unit}}

MkNilArgs == {<<Value_unit>>, <<Value_bool(TRUE)>>}

SndPairArgs ==
    {<<p>> : p \in DataPairs \cup {Value_unit}}
      \cup {<<Value_pair("pair(integer,list(data))", Value_integer(Integer_from(1)),
                         Value_list("data", <<Value_data(PlutusData_integer(Integer_from(1)))>>))>>}

\* DefaultFunction::arity: the number of arguments the arm of the builtin reads
arity(fun) ==
    CASE fun \in {"MapData", "ListData", "IData", "BData", "UnConstrData", "UnMapData",
                  "UnListData", "UnIData", "UnBData", "FindFirstSetBit"} -> 1
      [] fun \in {"HeadList", "TailList", "MkNilData", "MkNilPairData", "SndPair",
                  "SerialiseData"} -> 1
      [] fun \in {"IfThenElse", "SliceByteString", "IntegerToByteString", "WriteBits",
                  "AndByteString", "OrByteString", "XorByteString", "ChooseList",
                  "VerifyEd25519Signature"} -> 3
      [] fun = "ChooseData" -> 6
      [] OTHER -> 2

\* DefaultFunction::force_count: the number of forces a polymorphic builtin takes
force_count(fun) ==
    CASE fun \in {"IfThenElse", "ChooseUnit", "Trace", "ChooseData", "MkCons", "HeadList",
                  "TailList"} -> 1
      [] fun \in {"ChooseList", "SndPair"} -> 2
      [] OTHER -> 0

\* Runtime { args, fun, forces }: the record of a builtin forced as often as it needs
Runtime(fun, args) == [args |-> args, fun |-> fun, forces |-> force_count(fun)]

\* Runtime::new
Runtime_new(fun) == [args |-> <<>>, fun |-> fun, forces |-> 0]

\* Runtime::force: allocates a copy of record self with one more force
Runtime_force(a, self) ==
    Append(a, [args |-> a[self].args, fun |-> a[self].fun, forces |-> a[self].forces + 1])

\* faulty variant of Runtime::push: the argument is pushed onto the vector of
\* record self as well
Runtime_push_shared(a, self, arg) ==
    LET new_runtime == [args |-> Append(a[self].args, arg), fun |-> a[self].fun,
                        forces |-> a[self].forces]
    IN  Append([a EXCEPT ![self] = new_runtime], new_runtime)

\* Runtime::push: allocates a copy of record self and pushes arg onto the copy
Runtime_push(a, self, arg) ==
    LET new_runtime == [args |-> a[self].args, fun |-> a[self].fun, forces |-> a[self].forces]
    IN  Append(a, [new_runtime EXCEPT !.args = Append(new_runtime.args, arg)])

\* Runtime::is_ready
is_ready(self) == Len(self.args) = arity(self.fun)

\* the builtins whose records are built, and the values pushed
RuntimeFuns == {"IData", "DivideInteger", "ChooseUnit", "IfThenElse", "ChooseList"}

PushValues == {Value_unit, Value_integer(Integer_from(1))}


\* the ready runtimes of the single-call specification
CallRuntimes ==
    {Runtime(fun, args) :
        fun \in {"DivideInteger", "QuotientInteger", "RemainderInteger", "ModInteger"},
        args \in IntegerPairs}
      \cup {Runtime("ConsByteString", args) : args \in ConsArgs}
      \cup {Runtime("SliceByteString", args) : args \in SliceArgs}
      \cup {Runtime("IndexByteString", args) : args \in IndexArgs}
      \cup {Runtime("IfThenElse", args) : args \in IfThenElseArgs}
      \cup {Runtime("Trace", args) : args \in TraceArgs}
      \cup {Runtime("ChooseUnit", args) : args \in ChooseUnitArgs}
      \cup {Runtime("ChooseList", args) : args \in ChooseListArgs}
      \cup {Runtime("ChooseData", args) : args \in ChooseDataArgs}
      \cup {Runtime("VerifyEd25519Signature", args) : args \in VerifyEd25519SignatureArgs}
      \cup {Runtime("MkCons", args) : args \in MkConsArgs}
      \cup {Runtime(fun, args) : fun \in {"HeadList", "TailList"}, args \in HeadListArgs}
      \cup {Runtime(fun, args) : fun \in {"MkNilData", "MkNilPairData"}, args \in MkNilArgs}
      \cup {Runtime("SndPair", args) : args \in SndPairArgs}
      \cup {Runtime("SerialiseData", <<Value_data(d)>>) : d \in DataSamples}
      \cup {Runtime("ShiftByteString", args) : args \in ShiftArgs}
      \cup {Runtime("IntegerToByteString", args) : args \in IntegerToByteStringArgs}
      \cup {Runtime("ConstrData", args) : args \in ConstrDataArgs}
      \cup {Runtime("MapData", args) : args \in MapDataArgs}
      \cup {Runtime("ListData", args) : args \in ListDataArgs}
      \cup {Runtime("IData", args) : args \in IDataArgs}
      \cup {Runtime("BData", args) : args \in BDataArgs}
      \cup {Runtime(fun, args) :
              fun \in {"UnConstrData", "UnMapData", "UnListData", "UnIData", "UnBData"},
              args \in DataArgs}
      \cup {Runtime("Bls12_381_G1_ScalarMul", args) : args \in G1ScalarMulArgs}
      \cup {Runtime("Bls12_381_G2_ScalarMul", args) : args \in G2ScalarMulArgs}
      \cup {Runtime("FindFirstSetBit", args) : args \in FindFirstSetBitArgs}
      \cup {Runtime(fun, args) :
              fun \in {"AndByteString", "OrByteString", "XorByteString"}, args \in LogicalArgs}
      \cup {Runtime("ReadBit", args) : args \in ReadBitArgs}
      \cup {Runtime("WriteBits", args) : args \in WriteBitsArgs}
      \cup {Runtime("RotateByteString", args) : args \in RotateArgs}
      \cup {Runtime("ByteStringToInteger", args) : args \in ByteStringToIntegerArgs}

\* the ready runtimes a caller builds one after the other
SeqRuntimes ==
    {Runtime(fun, <<Value_integer(Integer_from(a)), Value_integer(Integer_from(b))>>) :
        fun \in {"DivideInteger", "QuotientInteger", "RemainderInteger", "ModInteger"},
        a \in {-3, 2}, b \in {0, 2}}
      \cup {Runtime("ConsByteString", <<Value_integer(Integer_from(n)), Value_byte_string(<<178>>)>>) :
              n \in {-1, 0, 256}}
      \cup {Runtime("SliceByteString",
                    <<Value_integer(Integer_from(1)), Value_integer(Integer_from(n)),
                      Value_byte_string(<<0, 178>>)>>) : n \in {-1, 2}}
      \cup {Runtime("IndexByteString", <<Value_byte_string(<<178>>), Value_integer(i)>>) :
              i \in {Integer_from(0), Integer_from(1), Big(1, 0, 0)}}
      \cup {Runtime("ShiftByteString", <<Value_byte_string(<<0, 178>>), Value_integer(Integer_from(n))>>) :
              n \in {-3, 8}}
      \cup {Runtime("IfThenElse", args) : args \in IfThenElseArgs}
      \cup {Runtime("Trace", args) : args \in TraceArgs}
      \cup {Runtime("IntegerToByteString",
                    <<Value_bool(TRUE), Value_integer(Integer_from(n)), Value_integer(Integer_from(258))>>) :
              n \in {1, 3}}
      \cup {Runtime("ByteStringToInteger", <<Value_bool(e), Value_byte_string(<<0, 178>>)>>) :
              e \in BOOLEAN}
      \cup {Runtime("RotateByteString", <<Value_byte_string(<<0, 178>>), Value_integer(n)>>) :
              n \in {Integer_from(-3), Big(0, 1, 0)}}
      \cup {Runtime("ReadBit", <<Value_byte_string(<<0, 178>>), Value_integer(Integer_from(n))>>) :
              n \in {1, 16}}
      \cup {Runtime("WriteBits",
                    <<Value_byte_string(<<0, 178>>),
                      Value_list("integer", <<Value_integer(Integer_from(0)), Value_integer(Integer_from(n))>>),
                      Value_bool(TRUE)>>) : n \in {9, 16}}
      \cup {Runtime(fun, <<Value_bool(pad), Value_byte_string(<<178, 15>>), Value_byte_string(<<240>>)>>) :
              fun \in {"AndByteString", "OrByteString", "XorByteString"}, pad \in BOOLEAN}
      \cup {Runtime("FindFirstSetBit", <<Value_byte_string(bs)>>) : bs \in {<<0>>, <<178, 0>>}}
      \cup {Runtime("Bls12_381_G1_ScalarMul", <<Value_integer(Integer_from(-1)), Value_g1("G", <<>>)>>),
            Runtime("Bls12_381_G2_ScalarMul", <<Value_integer(Integer_from(-1)), Value_g2("H", <<>>)>>)}
      \cup {Runtime("ConstrData", <<Value_integer(Integer_from(-1)), Value_list("data", <<>>)>>),
            Runtime("MapData", <<Value_list("data", <<>>)>>),
            Runtime("ListData", <<Value_list("data", <<Value_data(PlutusData_byte_string(<<178>>))>>)>>),
            Runtime("IData", <<Value_integer(Big(0, 1, 0))>>),
            Runtime("BData", <<Value_byte_string(<<178>>)>>)}
      \cup {Runtime(fun, <<Value_data(d)>>) :
              fun \in {"UnConstrData", "UnMapData", "UnListData", "UnIData", "UnBData"},
              d \in {PlutusData_integer(Integer_from(1)),
                      PlutusData_constr(Integer_from(0), <<PlutusData_byte_string(<<178>>)>>)}}
      \cup {Runtime("ChooseUnit", <<Value_unit, Value_integer(Integer_from(1))>>),
            Runtime("ChooseList", <<Value_list("data", <<>>), Value_unit, Value_string("hi")>>),
            Runtime("ChooseData",
                    <<Value_data(PlutusData_byte_string(<<178>>)), Value_integer(Integer_from(1)),
                      Value_unit, Value_string("hi"), Value_bool(TRUE), Value_byte_string(<<178>>)>>)}
      \cup {Runtime("VerifyEd25519Signature",
                    <<Value_byte_string(Replicate(32, 1)), Value_byte_string(<<>>),
                      Value_byte_string(Replicate(g, 1))>>) : g \in {63, 64}}
      \cup {Runtime("MkCons", <<Value_integer(Integer_from(1)), Value_list(typ, <<>>)>>) :
              typ \in {"integer", "data"}}
      \cup {Runtime(fun, <<Value_list("integer", l)>>) :
              fun \in {"HeadList", "TailList"}, l \in {<<>>, <<Value_integer(Integer_from(2))>>}}
      \cup {Runtime("MkNilData", <<Value_unit>>), Runtime("MkNilPairData", <<Value_unit>>),
            Runtime("ListData", <<Value_list("integer", <<>>)>>)}
      \cup {Runtime("SndPair", args) : args \in SndPairArgs}
      \cup {Runtime("SerialiseData", <<Value_data(PlutusData_integer(Integer_from(1)))>>)}
      \cup {Runtime("DivideInteger", <<Value_unit, Value_integer(Integer_from(1))>>),
            Runtime("ShiftByteString", <<Value_byte_string(<<>>), Value_unit>>)}

(***************************************************************************)
(* De Bruijn binders (binder/debruijn.rs) and the words of the flat        *)
(* encoding they are written as.                                           *)
(***************************************************************************)
\* flat::Encoder::word: the 7-bit groups of n, least significant first, each
\* but the last with its high bit set
RECURSIVE Encoder_word(_, _)
Encoder_word(e, n) ==
    IF n < 128 THEN Append(e, n)
    ELSE Encoder_word(Append(e, 128 + (n % 128)), n \div 128)

\* flat::Decoder::word: reads groups up to the first one without the high bit;
\* fails at the end of the buffer
RECURSIVE Decoder_word_from(_, _, _, _)
Decoder_word_from(buffer, pos, weight, acc) ==
    IF pos >= Len(buffer) THEN [ok |-> FALSE, word |-> 0, pos |-> pos]
    ELSE LET byte == buffer[pos + 1]
         IN  IF byte < 128 THEN [ok |-> TRUE, word |-> acc + weight * byte, pos |-> pos + 1]
             ELSE Decoder_word_from(buffer, pos + 1, weight * 128, acc + weight * (byte - 128))

Decoder_word(d) == Decoder_word_from(d.buffer, d.pos, 1, 0)

\* DeBruijn(i)
DeBruijn_new(i) == [i |-> i]

DeBruijn_zero == [i |-> 0]

\* Eval::index
index(self) == self.i

\* Binder::var_encode: the Encoder after e.word(self.0)
var_encode(self, e) == Encoder_word(e, self.i)

\* faulty variant of var_decode: the word is read and dropped
var_decode_as_parameter(d) ==
    LET w == Decoder_word(d)
    IN  IF ~w.ok THEN [kind |-> "Err", binder |-> DeBruijn_zero, d |-> d]
        ELSE [kind |-> "Ok", binder |-> DeBruijn_new(0), d |-> [d EXCEPT !.pos = w.pos]]

\* Binder::var_decode: let i = d.word()?; DeBruijn::new(arena, i)
var_decode(d) ==
    LET w == Decoder_word(d)
    IN  IF ~w.ok THEN [kind |-> "Err", binder |-> DeBruijn_zero, d |-> d]
        ELSE [kind |-> "Ok", binder |-> DeBruijn_new(w.word), d |-> [d EXCEPT !.pos = w.pos]]

\* Binder::parameter_encode: Ok(()) with the Encoder untouched
parameter_encode(self, e) == e

\* Binder::parameter_decode: DeBruijn::new(arena, 0) with the Decoder untouched
parameter_decode(d) == [kind |-> "Ok", binder |-> DeBruijn_new(0), d |-> d]

\* the indices of the binders written: of one, two and three 7-bit groups
Indices == {0, 1, 127, 128, 300, 16384}

NoReturn == [op |-> "", kind |-> "None", binder |-> DeBruijn_zero]

NoDecoder == [buffer |-> <<>>, pos |-> 0]

(***************************************************************************)
(* The machine.                                                            *)
(***************************************************************************)
NoCall == [kind |-> "None", value |-> Value_unit, err |-> "", eargs |-> <<>>, spent |-> <<>>]

\* a machine with its full budget and an empty log, and the first runtime
Init ==
    /\ budget = [cpu |-> MaxBudget, mem |-> MaxBudget]
    /\ logs = <<>>
    /\ semantics \in {"V1", "V2"}
    /\ runtime \in SeqRuntimes
    /\ last = NoCall
    /\ arena = <<>>
    /\ calls = <<>>
    /\ encoder = <<>>
    /\ decoder = NoDecoder
    /\ binder = DeBruijn_zero
    /\ returned = NoReturn

\* a machine about to make one call, with budget left or with none
InitCall ==
    /\ budget \in {[cpu |-> c, mem |-> c] : c \in {0, MaxBudget}}
    /\ logs = <<>>
    /\ semantics \in {"V1", "V2"}
    /\ runtime \in CallRuntimes
    /\ last = NoCall
    /\ arena = <<>>
    /\ calls = <<>>
    /\ encoder = <<>>
    /\ decoder = NoDecoder
    /\ binder = DeBruijn_zero
    /\ returned = NoReturn

\* a machine whose budget is exhausted dispatches nothing more, and a call is
\* dispatched when the caller holds no result
CanDispatch ==
    /\ last.kind = "None"
    /\ budget.cpu >= 0 /\ budget.mem >= 0

\* Machine::call returned r: the machine is in the state the arm left it in,
\* and the caller holds the Result
Returned(r) ==
    /\ budget' = r.m.budget
    /\ logs' = r.m.logs
    /\ last' = [kind |-> r.kind, value |-> r.value, err |-> r.err,
                eargs |-> r.eargs, spent |-> r.m.spent]

\* the caller takes the Result of the call and builds its next ready runtime;
\* after a panic there is no caller left
Return ==
    /\ last.kind \in {"Ok", "Err"}
    /\ last' = NoCall
    /\ runtime' \in SeqRuntimes
    /\ UNCHANGED <<budget, logs, semantics, records, wire>>

DivideInteger ==
    /\ runtime.fun = "DivideInteger"
    /\ CanDispatch
    /\ Returned(call_DivideInteger(Machine(budget, logs, semantics), runtime.args))
    /\ UNCHANGED <<semantics, runtime, records, wire>>

QuotientInteger ==
    /\ runtime.fun = "QuotientInteger"
    /\ CanDispatch
    /\ Returned(call_QuotientInteger(Machine(budget, logs, semantics), runtime.args))
    /\ UNCHANGED <<semantics, runtime, records, wire>>

RemainderInteger ==
    /\ runtime.fun = "RemainderInteger"
    /\ CanDispatch
    /\ Returned(call_RemainderInteger(Machine(budget, logs, semantics), runtime.args))
    /\ UNCHANGED <<semantics, runtime, records, wire>>

ModInteger ==
    /\ runtime.fun = "ModInteger"
    /\ CanDispatch
    /\ Returned(call_ModInteger(Machine(budget, logs, semantics), runtime.args))
    /\ UNCHANGED <<semantics, runtime, records, wire>>

ConsByteString ==
    /\ runtime.fun = "ConsByteString"
    /\ CanDispatch
    /\ Returned(call_ConsByteString(Machine(budget, logs, semantics), runtime.args))
    /\ UNCHANGED <<semantics, runtime, records, wire>>

SliceByteString ==
    /\ runtime.fun = "SliceByteString"
    /\ CanDispatch
    /\ Returned(call_SliceByteString(Machine(budget, logs, semantics), runtime.args))
    /\ UNCHANGED <<semantics, runtime, records, wire>>

IndexByteString ==
    /\ runtime.fun = "IndexByteString"
    /\ CanDispatch
    /\ Returned(call_IndexByteString(Machine(budget, logs, semantics), runtime.args))
    /\ UNCHANGED <<semantics, runtime, records, wire>>

IfThenElse ==
    /\ runtime.fun = "IfThenElse"
    /\ CanDispatch
    /\ Returned(call_IfThenElse(Machine(budget, logs, semantics), runtime.args))
    /\ UNCHANGED <<semantics, runtime, records, wire>>

Trace ==
    /\ runtime.fun = "Trace"
    /\ CanDispatch
    /\ Returned(call_Trace(Machine(budget, logs, semantics), runtime.args))
    /\ UNCHANGED <<semantics, runtime, records, wire>>

ShiftByteString ==
    /\ runtime.fun = "ShiftByteString"
    /\ CanDispatch
    /\ Returned(call_ShiftByteString(Machine(budget, logs, semantics), runtime.args))
    /\ UNCHANGED <<semantics, runtime, records, wire>>

IntegerToByteString ==
    /\ runtime.fun = "IntegerToByteString"
    /\ CanDispatch
    /\ Returned(call_IntegerToByteString(Machine(budget, logs, semantics), runtime.args))
    /\ UNCHANGED <<semantics, runtime, records, wire>>

ByteStringToInteger ==
    /\ runtime.fun = "ByteStringToInteger"
    /\ CanDispatch
    /\ Returned(call_ByteStringToInteger(Machine(budget, logs, semantics), runtime.args))
    /\ UNCHANGED <<semantics, runtime, records, wire>>

RotateByteString ==
    /\ runtime.fun = "RotateByteString"
    /\ CanDispatch
    /\ Returned(call_RotateByteString(Machine(budget, logs, semantics), runtime.args))
    /\ UNCHANGED <<semantics, runtime, records, wire>>

ReadBit ==
    /\ runtime.fun = "ReadBit"
    /\ CanDispatch
    /\ Returned(call_ReadBit(Machine(budget, logs, semantics), runtime.args))
    /\ UNCHANGED <<semantics, runtime, records, wire>>

WriteBits ==
    /\ runtime.fun = "WriteBits"
    /\ CanDispatch
    /\ Returned(call_WriteBits(Machine(budget, logs, semantics), runtime.args))
    /\ UNCHANGED <<semantics, runtime, records, wire>>

AndByteString ==
    /\ runtime.fun = "AndByteString"
    /\ CanDispatch
    /\ Returned(call_AndByteString(Machine(budget, logs, semantics), runtime.args))
    /\ UNCHANGED <<semantics, runtime, records, wire>>

OrByteString ==
    /\ runtime.fun = "OrByteString"
    /\ CanDispatch
    /\ Returned(call_OrByteString(Machine(budget, logs, semantics), runtime.args))
    /\ UNCHANGED <<semantics, runtime, records, wire>>

XorByteString ==
    /\ runtime.fun = "XorByteString"
    /\ CanDispatch
    /\ Returned(call_XorByteString(Machine(budget, logs, semantics), runtime.args))
    /\ UNCHANGED <<semantics, runtime, records, wire>>

FindFirstSetBit ==
    /\ runtime.fun = "FindFirstSetBit"
    /\ CanDispatch
    /\ Returned(call_FindFirstSetBit(Machine(budget, logs, semantics), runtime.args))
    /\ UNCHANGED <<semantics, runtime, records, wire>>

Bls12_381_G2_ScalarMul ==
    /\ runtime.fun = "Bls12_381_G2_ScalarMul"
    /\ CanDispatch
    /\ \E uninit \in UninitBytes :
          Returned(call_Bls12_381_G2_ScalarMul(Machine(budget, logs, semantics), runtime.args, uninit))
    /\ UNCHANGED <<semantics, runtime, records, wire>>

Bls12_381_G1_ScalarMul ==
    /\ runtime.fun = "Bls12_381_G1_ScalarMul"
    /\ CanDispatch
    /\ Returned(call_Bls12_381_G1_ScalarMul(Machine(budget, logs, semantics), runtime.args))
    /\ UNCHANGED <<semantics, runtime, records, wire>>

ConstrData ==
    /\ runtime.fun = "ConstrData"
    /\ CanDispatch
    /\ Returned(call_ConstrData(Machine(budget, logs, semantics), runtime.args))
    /\ UNCHANGED <<semantics, runtime, records, wire>>

MapData ==
    /\ runtime.fun = "MapData"
    /\ CanDispatch
    /\ Returned(call_MapData(Machine(budget, logs, semantics), runtime.args))
    /\ UNCHANGED <<semantics, runtime, records, wire>>

ListData ==
    /\ runtime.fun = "ListData"
    /\ CanDispatch
    /\ Returned(call_ListData(Machine(budget, logs, semantics), runtime.args))
    /\ UNCHANGED <<semantics, runtime, records, wire>>

IData ==
    /\ runtime.fun = "IData"
    /\ CanDispatch
    /\ Returned(call_IData(Machine(budget, logs, semantics), runtime.args))
    /\ UNCHANGED <<semantics, runtime, records, wire>>

BData ==
    /\ runtime.fun = "BData"
    /\ CanDispatch
    /\ Returned(call_BData(Machine(budget, logs, semantics), runtime.args))
    /\ UNCHANGED <<semantics, runtime, records, wire>>

UnConstrData ==
    /\ runtime.fun = "UnConstrData"
    /\ CanDispatch
    /\ Returned(call_UnConstrData(Machine(budget, logs, semantics), runtime.args))
    /\ UNCHANGED <<semantics, runtime, records, wire>>

UnMapData ==
    /\ runtime.fun = "UnMapData"
    /\ CanDispatch
    /\ Returned(call_UnMapData(Machine(budget, logs, semantics), runtime.args))
    /\ UNCHANGED <<semantics, runtime, records, wire>>

UnListData ==
    /\ runtime.fun = "UnListData"
    /\ CanDispatch
    /\ Returned(call_UnListData(Machine(budget, logs, semantics), runtime.args))
    /\ UNCHANGED <<semantics, runtime, records, wire>>

UnIData ==
    /\ runtime.fun = "UnIData"
    /\ CanDispatch
    /\ Returned(call_UnIData(Machine(budget, logs, semantics), runtime.args))
    /\ UNCHANGED <<semantics, runtime, records, wire>>

UnBData ==
    /\ runtime.fun = "UnBData"
    /\ CanDispatch
    /\ Returned(call_UnBData(Machine(budget, logs, semantics), runtime.args))
    /\ UNCHANGED <<semantics, runtime, records, wire>>

ChooseUnit ==
    /\ runtime.fun = "ChooseUnit"
    /\ CanDispatch
    /\ Returned(call_ChooseUnit(Machine(budget, logs, semantics), runtime.args))
    /\ UNCHANGED <<semantics, runtime, records, wire>>

ChooseList ==
    /\ runtime.fun = "ChooseList"
    /\ CanDispatch
    /\ Returned(call_ChooseList(Machine(budget, logs, semantics), runtime.args))
    /\ UNCHANGED <<semantics, runtime, records, wire>>

ChooseData ==
    /\ runtime.fun = "ChooseData"
    /\ CanDispatch
    /\ Returned(call_ChooseData(Machine(budget, logs, semantics), runtime.args))
    /\ UNCHANGED <<semantics, runtime, records, wire>>

VerifyEd25519Signature ==
    /\ runtime.fun = "VerifyEd25519Signature"
    /\ CanDispatch
    /\ Returned(call_VerifyEd25519Signature(Machine(budget, logs, semantics), runtime.args))
    /\ UNCHANGED <<semantics, runtime, records, wire>>

MkCons ==
    /\ runtime.fun = "MkCons"
    /\ CanDispatch
    /\ Returned(call_MkCons(Machine(budget, logs, semantics), runtime.args))
    /\ UNCHANGED <<semantics, runtime, records, wire>>

HeadList ==
    /\ runtime.fun = "HeadList"
    /\ CanDispatch
    /\ Returned(call_HeadList(Machine(budget, logs, semantics), runtime.args))
    /\ UNCHANGED <<semantics, runtime, records, wire>>

TailList ==
    /\ runtime.fun = "TailList"
    /\ CanDispatch
    /\ Returned(call_TailList(Machine(budget, logs, semantics), runtime.args))
    /\ UNCHANGED <<semantics, runtime, records, wire>>

MkNilData ==
    /\ runtime.fun = "MkNilData"
    /\ CanDispatch
    /\ Returned(call_MkNilData(Machine(budget, logs, semantics), runtime.args))
    /\ UNCHANGED <<semantics, runtime, records, wire>>

MkNilPairData ==
    /\ runtime.fun = "MkNilPairData"
    /\ CanDispatch
    /\ Returned(call_MkNilPairData(Machine(budget, logs, semantics), runtime.args))
    /\ UNCHANGED <<semantics, runtime, records, wire>>

SndPair ==
    /\ runtime.fun = "SndPair"
    /\ CanDispatch
    /\ Returned(call_SndPair(Machine(budget, logs, semantics), runtime.args))
    /\ UNCHANGED <<semantics, runtime, records, wire>>

SerialiseData ==
    /\ runtime.fun = "SerialiseData"
    /\ CanDispatch
    /\ Returned(call_SerialiseData(Machine(budget, logs, semantics), runtime.args))
    /\ UNCHANGED <<semantics, runtime, records, wire>>

Call ==
    \/ DivideInteger
    \/ QuotientInteger
    \/ RemainderInteger
    \/ ModInteger
    \/ ConsByteString
    \/ SliceByteString
    \/ IndexByteString
    \/ IfThenElse
    \/ Trace
    \/ ShiftByteString
    \/ IntegerToByteString
    \/ ByteStringToInteger
    \/ RotateByteString
    \/ ReadBit
    \/ WriteBits
    \/ AndByteString
    \/ OrByteString
    \/ XorByteString
    \/ FindFirstSetBit
    \/ Bls12_381_G2_ScalarMul
    \/ Bls12_381_G1_ScalarMul
    \/ ConstrData
    \/ MapData
    \/ ListData
    \/ IData
    \/ BData
    \/ UnConstrData
    \/ UnMapData
    \/ UnListData
    \/ UnIData
    \/ UnBData
    \/ ChooseUnit
    \/ ChooseList
    \/ ChooseData
    \/ VerifyEd25519Signature
    \/ MkCons
    \/ HeadList
    \/ TailList
    \/ MkNilData
    \/ MkNilPairData
    \/ SndPair
    \/ SerialiseData

Next == Call \/ Return

Spec == Init /\ [][Next]_vars

SpecCall == InitCall /\ [][Call]_vars

(***************************************************************************)
(* Building a Runtime record: Runtime::new, then force and push on any     *)
(* record allocated so far, and is_ready asked of any of them.             *)
(***************************************************************************)
InitRuntime ==
    /\ budget = [cpu |-> MaxBudget, mem |-> MaxBudget]
    /\ logs = <<>>
    /\ semantics = "V2"
    /\ \E fun \in RuntimeFuns :
          /\ arena = <<Runtime_new(fun)>>
          /\ runtime = Runtime_new(fun)
    /\ calls = <<[op |-> "new", self |-> 0, arg |-> Value_unit]>>
    /\ last = NoCall
    /\ encoder = <<>>
    /\ decoder = NoDecoder
    /\ binder = DeBruijn_zero
    /\ returned = NoReturn

Force ==
    /\ Len(arena) < MaxArena
    /\ \E self \in 1..Len(arena) :
          /\ arena' = Runtime_force(arena, self)
          /\ calls' = Append(calls, [op |-> "force", self |-> self, arg |-> Value_unit])
    /\ UNCHANGED <<budget, logs, semantics, runtime, last, wire>>

Push ==
    /\ Len(arena) < MaxArena
    /\ \E self \in 1..Len(arena), arg \in PushValues :
          /\ arena' = Runtime_push(arena, self, arg)
          /\ calls' = Append(calls, [op |-> "push", self |-> self, arg |-> arg])
    /\ UNCHANGED <<budget, logs, semantics, runtime, last, wire>>

\* the caller asks a record whether it is ready
IsReady ==
    /\ \E self \in 1..Len(arena) :
          /\ runtime' = arena[self]
          /\ last' = [NoCall EXCEPT !.kind = "Ok", !.value = Value_bool(is_ready(arena[self]))]
    /\ UNCHANGED <<budget, logs, semantics, records, wire>>

NextRuntime == Force \/ Push \/ IsReady

SpecRuntime == InitRuntime /\ [][NextRuntime]_vars

(***************************************************************************)
(* Chains of list builtins: the caller applies a list-producing builtin    *)
(* and hands what it returned to the next one.                             *)
(***************************************************************************)
ListFuns ==
    {"MkCons", "HeadList", "TailList", "MkNilData", "MkNilPairData", "UnListData",
     "UnMapData", "UnConstrData", "SndPair"}

InitList ==
    /\ budget = [cpu |-> MaxChain, mem |-> MaxChain]
    /\ logs = <<>>
    /\ semantics = "V2"
    /\ runtime \in {r \in CallRuntimes : r.fun \in ListFuns}
    /\ last = NoCall
    /\ arena = <<>>
    /\ calls = <<>>
    /\ encoder = <<>>
    /\ decoder = NoDecoder
    /\ binder = DeBruijn_zero
    /\ returned = NoReturn

\* the value returned becomes an argument of the next list builtin
Feed ==
    /\ last.kind = "Ok"
    /\ last' = NoCall
    /\ runtime' \in
         CASE last.value.t = "list" ->
                {Runtime("MkCons", <<item, last.value>>) : item \in ConsItems}
                  \cup {Runtime("HeadList", <<last.value>>), Runtime("TailList", <<last.value>>)}
           [] last.value.t = "pair" -> {Runtime("SndPair", <<last.value>>)}
           [] last.value.t = "data" ->
                {Runtime(fun, <<last.value>>) : fun \in {"UnListData", "UnMapData", "UnConstrData"}}
           [] OTHER -> {}
    /\ UNCHANGED <<budget, logs, semantics, records, wire>>

NextList ==
    \/ MkCons
    \/ HeadList
    \/ TailList
    \/ MkNilData
    \/ MkNilPairData
    \/ UnListData
    \/ UnMapData
    \/ UnConstrData
    \/ SndPair
    \/ Feed

SpecList == InitList /\ [][NextList]_vars

(***************************************************************************)
(* Writing and reading binders: a term writer calls var_encode and         *)
(* parameter_encode on its Encoder, a term reader opens a Decoder on the   *)
(* bytes written and calls var_decode and parameter_decode.                *)
(***************************************************************************)
InitBinder ==
    /\ budget = [cpu |-> MaxBudget, mem |-> MaxBudget]
    /\ logs = <<>>
    /\ semantics = "V2"
    /\ runtime = Runtime_new("IData")
    /\ last = NoCall
    /\ arena = <<>>
    /\ calls = <<>>
    /\ encoder = <<>>
    /\ decoder = NoDecoder
    /\ binder \in {DeBruijn_new(i) : i \in Indices}
    /\ returned = NoReturn

Var_encode ==
    /\ Len(var_encode(binder, encoder)) <= MaxWire
    /\ encoder' = var_encode(binder, encoder)
    /\ returned' = [op |-> "var_encode", kind |-> "Ok", binder |-> binder]
    /\ UNCHANGED <<budget, logs, semantics, runtime, last, records, decoder, binder>>

Parameter_encode ==
    /\ encoder' = parameter_encode(binder, encoder)
    /\ returned' = [op |-> "parameter_encode", kind |-> "Ok", binder |-> binder]
    /\ UNCHANGED <<budget, logs, semantics, runtime, last, records, decoder, binder>>

\* flat::Decoder::new on the bytes written so far
Decoder_new ==
    /\ decoder' = [buffer |-> encoder, pos |-> 0]
    /\ returned' = [op |-> "Decoder::new", kind |-> "Ok", binder |-> binder]
    /\ UNCHANGED <<budget, logs, semantics, runtime, last, records, encoder, binder>>

Var_decode ==
    /\ LET r == var_decode(decoder)
       IN  /\ decoder' = r.d
           /\ returned' = [op |-> "var_decode", kind |-> r.kind, binder |-> r.binder]
    /\ UNCHANGED <<budget, logs, semantics, runtime, last, records, encoder, binder>>

Parameter_decode ==
    /\ LET r == parameter_decode(decoder)
       IN  /\ decoder' = r.d
           /\ returned' = [op |-> "parameter_decode", kind |-> r.kind, binder |-> r.binder]
    /\ UNCHANGED <<budget, logs, semantics, runtime, last, records, encoder, binder>>

NextBinder == Var_encode \/ Parameter_encode \/ Decoder_new \/ Var_decode \/ Parameter_decode

SpecBinder == InitBinder /\ [][NextBinder]_vars

(***************************************************************************)
(* Properties.                                                             *)
(***************************************************************************)
Called(fun) == runtime.fun = fun /\ last.kind # "None"

\* the call passed its type checks and its debit: it reached the computation
Computed == last.kind # "None" /\ last.err \notin {"type_mismatch", "out_of_budget"}

ArgInt(i) == runtime.args[i].n

ArgBytes(i) == runtime.args[i].bs

Abs(n) == IF n < 0 THEN -n ELSE n

SameSign(r, x) == r = 0 \/ ((r < 0) = (x < 0))

\* a = b * q + r is the floored division of a by b: r is zero or has the sign of b
IsFloored(a, b, q, r) == a = b * q + r /\ Abs(r) < Abs(b) /\ SameSign(r, b)

\* a = b * q + r is the truncated division of a by b: r is zero or has the sign of a
IsTruncated(a, b, q, r) == a = b * q + r /\ Abs(r) < Abs(b) /\ SameSign(r, a)

Candidates(a) == (-(Abs(a) + 1))..(Abs(a) + 1)

ReturnsInt(n) == last.kind = "Ok" /\ last.value = Value_integer(Integer_from(n))

ReturnsBytes(bs) == last.kind = "Ok" /\ last.value = Value_byte_string(bs)

\* C1: for a non-zero divisor b, DivideInteger(a, b) returns floor(a / b) and
\* ModInteger(a, b) returns the floored modulus a - b * floor(a / b); neither fails.
C1_DivModFloored ==
    (Computed /\ runtime.fun \in {"DivideInteger", "ModInteger"} /\ ~is_zero(ArgInt(2))) =>
        LET a == ArgInt(1).w0
            b == ArgInt(2).w0
        IN  /\ last.kind = "Ok"
            /\ last.value.t = "integer"
            /\ IsSmall(last.value.n)
            /\ IF runtime.fun = "DivideInteger"
               THEN \E r \in Candidates(b) : IsFloored(a, b, last.value.n.w0, r)
               ELSE \E q \in Candidates(a) : IsFloored(a, b, q, last.value.n.w0)

\* bit k of a byte string in the ReadBit numbering: (byte[len - 1 - k / 8] >> (k % 8)) & 1
ReadBitAt(bs, k) == BitOf(bs[Len(bs) - (k \div 8)], k % 8)

\* bit k of bs shifted by n: bit k - n of bs when that is a bit of bs, else 0
\* (an n beyond 64 bits is beyond every bit of bs)
ShiftedBit(bs, n, k) ==
    IF IsSmall(n) /\ 0 <= k - n.w0 /\ k - n.w0 < 8 * Len(bs)
    THEN ReadBitAt(bs, k - n.w0)
    ELSE 0

\* C2: ShiftByteString(b, n) never fails and returns a byte string of the length of b
\* whose bit k is bit k - n of b when 0 <= k - n < 8 * len and 0 otherwise, for every n.
C2_ShiftBits ==
    (Computed /\ runtime.fun = "ShiftByteString") =>
        /\ last.kind = "Ok"
        /\ last.value.t = "bytestring"
        /\ Len(last.value.bs) = Len(ArgBytes(1))
        /\ \A k \in 0..(8 * Len(ArgBytes(1)) - 1) :
              ReadBitAt(last.value.bs, k) = ShiftedBit(ArgBytes(1), ArgInt(2), k)

\* C3: under V1, ConsByteString(n, bs) succeeds for every integer n and returns
\* n modulo 256, in [0, 255], followed by bs.
C3_ConsV1Wraps ==
    (Computed /\ runtime.fun = "ConsByteString" /\ semantics = "V1") =>
        ReturnsBytes(<<ArgInt(1).w0 % 256>> \o ArgBytes(2))

\* C4: under V2, a ConsByteString(n, bs) that reaches its computation returns n
\* followed by bs exactly when 0 <= n <= 255, and for every other n returns the
\* byte-string-cons-not-a-byte error and no value.
C4_ConsV2Range ==
    (Computed /\ runtime.fun = "ConsByteString" /\ semantics = "V2") =>
        LET n == ArgInt(1)
        IN  IF IsSmall(n) /\ 0 <= n.w0 /\ n.w0 <= 255
            THEN ReturnsBytes(<<n.w0>> \o ArgBytes(2))
            ELSE /\ last.kind = "Err"
                 /\ last.err = "byte_string_cons_not_a_byte"
                 /\ last.eargs = <<Value_integer(n)>>

C4_Witness ==
    /\ Called("ConsByteString") /\ semantics = "V2"
    /\ ArgInt(1) = Integer_from(256)
    /\ last.err = "byte_string_cons_not_a_byte"

\* C5: IndexByteString(b, i) returns byte i of b when 0 <= i < len(b), and the
\* byte-string-out-of-bounds error for every other integer i, however large.
C5_IndexBounds ==
    (Computed /\ runtime.fun = "IndexByteString") =>
        LET i == ArgInt(2)
        IN  IF IsSmall(i) /\ 0 <= i.w0 /\ i.w0 < Len(ArgBytes(1))
            THEN ReturnsInt(ArgBytes(1)[i.w0 + 1])
            ELSE last.kind = "Err" /\ last.err = "byte_string_out_of_bounds"

\* C6: a call that returns a value has debited the budget by the cost of its builtin,
\* and the debit did not fail.
C6_ValueOnlyAfterDebit ==
    [][(last.kind = "None" /\ last'.kind = "Ok") =>
          LET c == builtin_costs(CostEntry(runtime.fun))
          IN  /\ budget'.cpu = budget.cpu - c.cpu
              /\ budget'.mem = budget.mem - c.mem
              /\ budget'.cpu >= 0 /\ budget'.mem >= 0]_vars

\* C7: a Trace(msg, v) that returns successfully appends msg once at the end of the
\* log and returns v; every other step (a failed Trace, any other builtin) leaves
\* the log as it was.
C7_LogIsSuccessfulTraces ==
    [][IF last.kind = "None" /\ last'.kind = "Ok" /\ runtime.fun = "Trace"
       THEN logs' = Append(logs, runtime.args[1].s) /\ last'.value = runtime.args[2]
       ELSE logs' = logs]_vars

C7_Witness ==
    /\ logs = <<"hi", "lo">>
    /\ Called("Trace") /\ last.kind = "Err" /\ last.err = "out_of_budget"

\* skip or take clamped to [0, len]
Clamped(x, len) ==
    IF is_negative(x) THEN 0 ELSE IF ~IsSmall(x) \/ x.w0 > len THEN len ELSE x.w0

Min(x, y) == IF x < y THEN x ELSE y

\* C8: a SliceByteString(skip, take, b) that reaches its computation never fails and
\* returns b[s .. min(s + t, len)] with s and t the clamped skip and take; the result
\* is at most len - s bytes long.
C8_SliceWindow ==
    (Computed /\ runtime.fun = "SliceByteString") =>
        LET b == ArgBytes(3)
            s == Clamped(ArgInt(1), Len(b))
            t == Clamped(ArgInt(2), Len(b))
        IN  /\ ReturnsBytes(SubSeq(b, s + 1, Min(s + t, Len(b))))
            /\ Len(last.value.bs) <= Len(b) - s

C8_Witness ==
    /\ Called("SliceByteString") /\ last.kind = "Ok"
    /\ ArgInt(1) = Integer_from(1) /\ ArgInt(2) = Big(0, 1, 1)
    /\ Len(ArgBytes(3)) = MaxLen
    /\ Len(last.value.bs) = MaxLen - 1

\* C9: for a non-zero divisor b, QuotientInteger(a, b) returns a / b truncated toward
\* zero and RemainderInteger(a, b) returns a - b * QuotientInteger(a, b), which is
\* zero or has the sign of a.
C9_QuotRemTruncated ==
    (Computed /\ runtime.fun \in {"QuotientInteger", "RemainderInteger"} /\ ~is_zero(ArgInt(2))) =>
        LET a == ArgInt(1).w0
            b == ArgInt(2).w0
        IN  /\ last.kind = "Ok"
            /\ last.value.t = "integer"
            /\ IsSmall(last.value.n)
            /\ IF runtime.fun = "QuotientInteger"
               THEN \E r \in Candidates(b) : IsTruncated(a, b, last.value.n.w0, r)
               ELSE \E q \in Candidates(a) : IsTruncated(a, b, q, last.value.n.w0)

C9_Witness ==
    /\ Called("RemainderInteger")
    /\ ArgInt(1) = Integer_from(-3) /\ ArgInt(2) = Integer_from(2)
    /\ ReturnsInt(-1)

\* C10: with the budget sufficient, each of the four division builtins called with
\* divisor 0 returns the division-by-zero error carrying both operands, and no value.
C10_DivisionByZero ==
    (runtime.fun \in {"DivideInteger", "QuotientInteger", "RemainderInteger", "ModInteger"}
       /\ Computed /\ is_zero(ArgInt(2))) =>
        /\ last.kind = "Err"
        /\ last.err = "division_by_zero"
        /\ last.eargs = <<runtime.args[1], runtime.args[2]>>

C10_Witness ==
    /\ Called("ModInteger")
    /\ ArgInt(1) = Integer_from(-3) /\ ArgInt(2) = Integer_from(0)
    /\ last.err = "division_by_zero"

ArgBool(i) == runtime.args[i].b

\* the number of base-256 digits of a digit 0 <= n < 2^31
SmallLen(n) ==
    IF n = 0 THEN 0 ELSE IF n < 256 THEN 1 ELSE IF n < 65536 THEN 2
    ELSE IF n < 16777216 THEN 3 ELSE 4

\* the number of bytes of the minimal unsigned encoding of x >= 0, 0 for zero
MinimalLen(x) ==
    IF x.w3 # 0 THEN INTEGER_TO_BYTE_STRING_MAXIMUM_OUTPUT_LENGTH + SmallLen(x.w3)
    ELSE IF x.w2 # 0 THEN 16 + SmallLen(x.w2)
    ELSE IF x.w1 # 0 THEN 8 + SmallLen(x.w1)
    ELSE SmallLen(x.w0)

\* bs is the unsigned encoding of x >= 0 in exactly len bytes in the given byte
\* order: its bytes above the minimal length of x are zero, the others are x
EncodesIn(bs, x, len, be) ==
    /\ Len(bs) = len
    /\ MinimalLen(x) <= len
    /\ LET le == IF be THEN Reverse(bs) ELSE bs
       IN  /\ \A k \in (MinimalLen(x) + 1)..len : le[k] = 0
           /\ from_bytes_le(SubSeq(le, 1, MinimalLen(x))) = x

\* C11: IntegerToByteString(be, size, input) returns an error when size < 0,
\* when size > 8192, when input < 0, when size = 0 and input needs more than
\* 8192 bytes, and when size > 0 and the minimal encoding of input is longer
\* than size; otherwise it returns the unsigned encoding of input in exactly
\* size bytes (the minimal length when size = 0), the zero bytes of the
\* padding being the most significant ones of the chosen byte order.
C11_IntegerToByteString ==
    (Called("IntegerToByteString") /\ Computed) =>
        LET be    == ArgBool(1)
            size  == ArgInt(2)
            input == ArgInt(3)
            max   == Integer_from(INTEGER_TO_BYTE_STRING_MAXIMUM_OUTPUT_LENGTH)
            fails ==
                \/ is_negative(size)
                \/ Integer_lt(max, size)
                \/ is_negative(input)
                \/ is_zero(size) /\ MinimalLen(input) > INTEGER_TO_BYTE_STRING_MAXIMUM_OUTPUT_LENGTH
                \/ ~is_zero(size) /\ Integer_lt(size, Integer_from(MinimalLen(input)))
        IN  IF fails THEN last.kind = "Err"
            ELSE /\ last.kind = "Ok"
                 /\ last.value.t = "bytestring"
                 /\ EncodesIn(last.value.bs, input,
                              IF is_zero(size) THEN MinimalLen(input) ELSE size.w0, be)

\* a big-endian encoding was returned with zero bytes of padding in front of it
C11_Witness ==
    /\ Called("IntegerToByteString")
    /\ last.kind = "Ok"
    /\ ArgBool(1)
    /\ ~is_zero(ArgInt(3))
    /\ Len(last.value.bs) > MinimalLen(ArgInt(3))
    /\ last.value.bs[1] = 0
    /\ last.value.bs[Len(last.value.bs)] # 0

\* the arguments x >= 0 and size of the round trip, and what IntegerToByteString returns
RoundTrips ==
    LET m0 == Machine([cpu |-> MaxBudget, mem |-> MaxBudget], <<>>, "V2")
    IN  {[be |-> e, size |-> size, x |-> x,
          encoded |-> call_IntegerToByteString(
                          m0, <<Value_bool(e), Value_integer(size), Value_integer(x)>>)] :
            e \in BOOLEAN,
            x \in {x \in EncodedInts :
                      /\ ~is_negative(x)
                      /\ MinimalLen(x) <= INTEGER_TO_BYTE_STRING_MAXIMUM_OUTPUT_LENGTH},
            size \in {size \in SizeInts :
                      /\ ~is_negative(size)
                      /\ Integer_le(size, Integer_from(INTEGER_TO_BYTE_STRING_MAXIMUM_OUTPUT_LENGTH))}}

\* C12: for both byte orders and every x >= 0 that fits 8192 bytes,
\* ByteStringToInteger(be, IntegerToByteString(be, size, x)) = x for size 0
\* and for every size in [1, 8192] that is at least the minimal length of x.
C12_RoundTrip ==
    (Called("ByteStringToInteger") /\ Computed) =>
        \A t \in RoundTrips :
            (/\ t.be = ArgBool(1)
             /\ (is_zero(t.size) \/ Integer_le(Integer_from(MinimalLen(t.x)), t.size)))
            => /\ t.encoded.kind = "Ok"
               /\ t.encoded.value.bs = ArgBytes(2)
                    => last.kind = "Ok" /\ last.value = Value_integer(t.x)

\* a padded encoding of an integer of more than 8 bytes was decoded
C12_Witness ==
    /\ Called("ByteStringToInteger")
    /\ last.kind = "Ok"
    /\ last.value.n = Big(0, 1, 5)
    /\ Len(ArgBytes(2)) = INTEGER_TO_BYTE_STRING_MAXIMUM_OUTPUT_LENGTH
    /\ \E t \in RoundTrips :
          t.be = ArgBool(1) /\ t.encoded.kind = "Ok" /\ t.encoded.value.bs = ArgBytes(2)

\* n modulo d > 0 for an Integer n without digits from 2^128 up
ModBig(n, d) == (n.w1 * pow2_64_mod(d) + n.w0) % d

\* C13: for a non-empty b and every integer n, of any magnitude and sign,
\* RotateByteString(b, n) returns a byte string of the length of b whose bit k
\* is bit (k - n) mod 8*len of b; rotating the empty byte string returns it;
\* the call never fails.
C13_RotateBits ==
    (Called("RotateByteString") /\ Computed) =>
        LET b   == ArgBytes(1)
            n   == ArgInt(2)
            len == Len(b)
        IN  /\ last.kind = "Ok"
            /\ last.value.t = "bytestring"
            /\ Len(last.value.bs) = len
            /\ \A k \in 0..(8 * len - 1) :
                  ReadBitAt(last.value.bs, k) = ReadBitAt(b, ModBig(Huge(0, 0, -n.w1, k - n.w0), 8 * len))

\* 0 <= i < 8 * len
InBitRange(i, len) == ~is_negative(i) /\ Integer_lt(i, Integer_from(8 * len))

\* C14: ReadBit(b, i) returns the empty-byte-array error when b is empty,
\* whatever i is; the out-of-bounds error when b is not empty and i is outside
\* [0, 8*len); and otherwise true exactly when bit i mod 8 of the byte
\* b[len - 1 - i div 8] is 1.
C14_ReadBit ==
    (Called("ReadBit") /\ Computed) =>
        LET b   == ArgBytes(1)
            i   == ArgInt(2)
            len == Len(b)
        IN  IF len = 0 THEN last.kind = "Err" /\ last.err = "empty_byte_array"
            ELSE IF ~InBitRange(i, len)
            THEN last.kind = "Err" /\ last.err = "read_bit_out_of_bounds"
            ELSE /\ last.kind = "Ok"
                 /\ last.value = Value_bool(BitOf(b[len - (i.w0 \div 8)], i.w0 % 8) = 1)

\* a bit of the first byte of a two-byte string was read as set
C14_Witness ==
    /\ Called("ReadBit")
    /\ last.kind = "Ok"
    /\ last.value = Value_bool(TRUE)
    /\ Len(ArgBytes(1)) = 2
    /\ Integer_le(Integer_from(8), ArgInt(2))

\* what C15 says of the result of WriteBits(b, indices, v)
WriteBitsResult ==
    LET b       == ArgBytes(1)
        indices == runtime.args[2].l
        v       == ArgBool(3)
        len     == Len(b)
        bad     == {j \in 1..Len(indices) : ~InBitRange(indices[j].n, len)}
    IN  IF bad = {}
        THEN /\ last.kind = "Ok"
             /\ last.value.t = "bytestring"
             /\ Len(last.value.bs) = len
             /\ \A k \in 0..(8 * len - 1) :
                   ReadBitAt(last.value.bs, k) =
                       IF \E j \in 1..Len(indices) : indices[j].n = Integer_from(k)
                       THEN (IF v THEN 1 ELSE 0)
                       ELSE ReadBitAt(b, k)
        ELSE /\ last.kind = "Err"
             /\ last.err = "write_bits_out_of_bounds"
             /\ last.eargs[1] = indices[CHOOSE j \in bad : \A h \in bad : j <= h]

\* C15: WriteBits(b, indices, v) succeeds exactly when every index lies in
\* [0, 8*len); on success the length is that of b, every listed bit reads back
\* as v and every other bit is unchanged, whatever the order and multiplicity
\* of the indices; on failure the error reports the first out-of-range index
\* in list order; the byte string passed in is not modified.
C15_WriteBits ==
    [][(runtime.fun = "WriteBits" /\ last.kind = "None" /\ Computed')
          => (runtime' = runtime /\ WriteBitsResult')]_vars

\* two bits were written, the higher index first, and the byte string changed
C15_Witness ==
    /\ Called("WriteBits")
    /\ last.kind = "Ok"
    /\ Len(runtime.args[2].l) = 2
    /\ Integer_lt(runtime.args[2].l[2].n, runtime.args[2].l[1].n)
    /\ last.value.bs # ArgBytes(1)

Max(x, y) == IF x < y THEN y ELSE x

\* bit i of the byte z is the operation of fun on bit i of the bytes x and y
BitwiseOf(fun, z, x, y) ==
    \A i \in 0..7 :
        BitOf(z, i) =
            CASE fun = "AndByteString" -> (IF BitOf(x, i) = 1 /\ BitOf(y, i) = 1 THEN 1 ELSE 0)
              [] fun = "OrByteString"  -> (IF BitOf(x, i) = 1 \/ BitOf(y, i) = 1 THEN 1 ELSE 0)
              [] fun = "XorByteString" -> (IF BitOf(x, i) # BitOf(y, i) THEN 1 ELSE 0)

\* C17: AndByteString, OrByteString and XorByteString (pad, a, b) return, when
\* pad is false, a byte string of length min(len a, len b) whose byte j is
\* a[j] op b[j]; when pad is true, one of length max(len a, len b) whose byte j
\* is a[j] op b[j] below the shorter length and the byte of the longer operand
\* from there on.
C17_LogicalByteString ==
    (runtime.fun \in {"AndByteString", "OrByteString", "XorByteString"}
        /\ last.kind # "None" /\ Computed) =>
        LET pad == ArgBool(1)
            a   == ArgBytes(2)
            b   == ArgBytes(3)
            min == Min(Len(a), Len(b))
            max == Max(Len(a), Len(b))
            longer == IF Len(a) < Len(b) THEN b ELSE a
            out == last.value.bs
        IN  /\ last.kind = "Ok"
            /\ last.value.t = "bytestring"
            /\ Len(out) = IF pad THEN max ELSE min
            /\ \A j \in 1..min : BitwiseOf(runtime.fun, out[j], a[j], b[j])
            /\ pad => \A j \in (min + 1)..max : out[j] = longer[j]

\* a padded AndByteString of operands of different lengths kept the tail of the longer
C17_Witness ==
    /\ Called("AndByteString")
    /\ last.kind = "Ok"
    /\ ArgBool(1)
    /\ ArgBytes(2) = <<240, 85>>
    /\ ArgBytes(3) = <<178>>
    /\ last.value.bs = <<176, 85>>

\* C16: FindFirstSetBit(b) returns -1 when every bit of b is 0, the empty byte
\* string included, and otherwise the smallest i for which ReadBit(b, i) is true.
C16_FindFirstSetBit ==
    (Called("FindFirstSetBit") /\ Computed) =>
        LET b   == ArgBytes(1)
            set == {i \in 0..(8 * Len(b) - 1) : ReadBitAt(b, i) = 1}
        IN  /\ last.kind = "Ok"
            /\ last.value.t = "integer"
            /\ IF set = {} THEN last.value.n = Integer_from(-1)
               ELSE \E i \in set :
                       /\ last.value.n = Integer_from(i)
                       /\ \A h \in set : i <= h

\* the first set bit was found in a byte other than the last one
C16_Witness ==
    /\ Called("FindFirstSetBit")
    /\ last.kind = "Ok"
    /\ ArgBytes(1) = <<178, 0>>
    /\ last.value.n = Integer_from(9)

\* the big-endian encoding of k mod SCALAR_PERIOD, in [0, SCALAR_PERIOD),
\* left-padded with zero bytes to the scalar width
ScalarOf(k) ==
    LET be == Reverse(to_bytes_le(mod_floor_period(k)))
    IN  Zeros(size_scalar - Len(be)) \o be

\* C18: for Bls12_381_G1_ScalarMul and Bls12_381_G2_ScalarMul and every integer
\* k, negative ones included, the scalar handed to the point multiplication is
\* the big-endian encoding of k mod SCALAR_PERIOD taken in [0, SCALAR_PERIOD),
\* left-padded with zero bytes to the scalar width; both builtins derive the
\* same bytes from the same k.
C18_ScalarDerivation ==
    (runtime.fun \in {"Bls12_381_G1_ScalarMul", "Bls12_381_G2_ScalarMul"}
        /\ last.kind # "None" /\ Computed) =>
        /\ last.kind = "Ok"
        /\ last.value.bs = ScalarOf(ArgInt(1))

\* what each constructor returns paired with what its projection must give back:
\* integers, byte strings, lists of Data, lists of pairs of Data, and a tag in
\* the unsigned 64-bit range with a list of Data
DataRoundTrips ==
    {[fun |-> "UnIData", made |-> call_IData(FullMachine, args), back |-> args[1]] :
        args \in {args \in IDataArgs : args[1].t = "integer"}}
      \cup {[fun |-> "UnBData", made |-> call_BData(FullMachine, args), back |-> args[1]] :
              args \in {args \in BDataArgs : args[1].t = "bytestring"}}
      \cup {[fun |-> "UnListData", made |-> call_ListData(FullMachine, <<l>>), back |-> l] :
              l \in DataLists}
      \cup {[fun |-> "UnMapData", made |-> call_MapData(FullMachine, <<l>>), back |-> l] :
              l \in PairLists}
      \cup {[fun |-> "UnConstrData",
             made |-> call_ConstrData(FullMachine, <<Value_integer(tag), fs>>),
             back |-> Value_pair("pair(integer,list(data))", Value_integer(tag), fs)] :
              tag \in {tag \in TagInts : FitsU64(tag)}, fs \in DataLists}

\* C19: UnIData(IData(i)) = i for every integer i, UnBData(BData(b)) = b for
\* every byte string b, UnListData(ListData(l)) = l for every list l of Data,
\* UnMapData(MapData(m)) = m for every list m of pairs of Data, order and
\* duplicate keys kept, and UnConstrData(ConstrData(t, fs)) is the pair (t, fs)
\* for every tag t in the unsigned 64-bit range and list fs of Data.
C19_DataRoundTrip ==
    (last.kind # "None" /\ Computed) =>
        \A t \in DataRoundTrips :
            t.fun = runtime.fun =>
                /\ t.made.kind = "Ok"
                /\ t.made.value = runtime.args[1]
                     => last.kind = "Ok" /\ last.value = t.back

\* a map of two different pairs with the same key came back from UnMapData
C19_Witness ==
    /\ Called("UnMapData")
    /\ last.kind = "Ok"
    /\ Len(last.value.l) = 2
    /\ last.value.l[1].l[1] = last.value.l[2].l[1]
    /\ last.value.l[1].l[2] # last.value.l[2].l[2]

\* every item of the list is of the declared element type
Homogeneous(list) ==
    \A i \in 1..Len(list.l) :
        IF list.et = "data" THEN list.l[i].t = "data"
        ELSE list.l[i].t = "pair" /\ list.l[i].et = list.et

\* C20: ConstrData and ListData on a list whose declared element type is not
\* Data, and MapData on a list whose declared element type is not
\* Pair(Data, Data), return a type-mismatch error even when the list is empty;
\* when the declared element type matches and the list is homogeneous they
\* succeed, and no unreachable branch is reached.
C20_ListElementType ==
    LET list == runtime.args[Len(runtime.args)]
        want == IF runtime.fun = "MapData" THEN "pair(data,data)" ELSE "data"
    IN  (/\ runtime.fun \in {"ConstrData", "ListData", "MapData"}
         /\ last.kind # "None" /\ last.err # "out_of_budget"
         /\ list.t = "list"
         /\ runtime.fun = "ConstrData" => runtime.args[1].t = "integer") =>
            IF list.et # want
            THEN last.kind = "Err" /\ last.err = "type_mismatch"
            ELSE Homogeneous(list) => last.kind = "Ok"

\* C21: the selector builtins return one of their branch arguments unchanged,
\* whatever it is: IfThenElse(c, a, b) returns a when c is true and b when c is
\* false; ChooseUnit((), a) returns a; ChooseList(l, a, b) returns a when l is
\* empty and b otherwise; ChooseData(d, c1, c2, c3, c4, c5) returns c1, c2, c3,
\* c4 or c5 when d is a Constr, a Map, a List, an Integer or a ByteString.
C21_Selectors ==
    (runtime.fun \in {"IfThenElse", "ChooseUnit", "ChooseList", "ChooseData"}
        /\ last.kind # "None" /\ Computed) =>
        /\ last.kind = "Ok"
        /\ last.value =
             CASE runtime.fun = "IfThenElse" ->
                    IF ArgBool(1) THEN runtime.args[2] ELSE runtime.args[3]
               [] runtime.fun = "ChooseUnit" -> runtime.args[2]
               [] runtime.fun = "ChooseList" ->
                    IF Len(runtime.args[1].l) = 0 THEN runtime.args[2] ELSE runtime.args[3]
               [] runtime.fun = "ChooseData" ->
                    LET c == runtime.args[1].d.c
                    IN  runtime.args[IF c = "Constr" THEN 2
                                     ELSE IF c = "Map" THEN 3
                                     ELSE IF c = "List" THEN 4
                                     ELSE IF c = "Integer" THEN 5 ELSE 6]

\* ChooseData on a Map returned its third argument, a branch that differs from
\* the others
C21_Witness ==
    /\ Called("ChooseData")
    /\ last.kind = "Ok"
    /\ runtime.args[1].d.c = "Map"
    /\ last.value = runtime.args[3]
    /\ \A i \in {2, 4, 5, 6} : runtime.args[i] # runtime.args[3]

\* C22: VerifyEd25519Signature(pk, msg, sig) returns an error, never the boolean
\* false, whenever len(pk) # 32 or len(sig) # 64, the error of the public-key
\* length taking precedence when both are wrong, and returns a boolean only
\* when both lengths are exact.
C22_Ed25519Lengths ==
    (Called("VerifyEd25519Signature") /\ last.kind # "None"
        /\ \A i \in 1..3 : runtime.args[i].t = "bytestring") =>
        LET key_ok == Len(ArgBytes(1)) = 32
            sig_ok == Len(ArgBytes(3)) = 64
        IN  /\ ~(key_ok /\ sig_ok) => last.kind = "Err"
            /\ (Computed /\ ~key_ok) => last.err = "unexpected_ed25519_public_key_length"
            /\ (Computed /\ key_ok /\ ~sig_ok) =>
                   last.err = "unexpected_ed25519_signature_length"
            /\ (Computed /\ key_ok /\ sig_ok) =>
                   last.kind = "Ok" /\ last.value.t = "bool"
            /\ last.kind = "Ok" => key_ok /\ sig_ok

\* a key and a signature both one byte short gave the error of the key length
C22_Witness ==
    /\ Called("VerifyEd25519Signature")
    /\ Len(ArgBytes(1)) = 31
    /\ Len(ArgBytes(3)) = 63
    /\ last.kind = "Err"
    /\ last.err = "unexpected_ed25519_public_key_length"

\* the number of force calls, and the values pushed, on the way from
\* Runtime::new to record i
RECURSIVE ForceCalls(_)
ForceCalls(i) ==
    IF calls[i].op = "new" THEN 0
    ELSE ForceCalls(calls[i].self) + (IF calls[i].op = "force" THEN 1 ELSE 0)

RECURSIVE Pushed(_)
Pushed(i) ==
    IF calls[i].op = "new" THEN <<>>
    ELSE IF calls[i].op = "push" THEN Append(Pushed(calls[i].self), calls[i].arg)
    ELSE Pushed(calls[i].self)

BuiltAsCalled ==
    \A i \in 1..Len(arena) :
        /\ arena[i].fun = arena[1].fun
        /\ arena[i].forces = ForceCalls(i)
        /\ arena[i].args = Pushed(i)

\* C23: from Runtime::new(fun), every force and push call returns a new record
\* and leaves every record allocated before, the one it was called on included,
\* unchanged; each record has the fun of the first, forces equal to the number
\* of force calls and args equal to the pushed values in push order.
C23_RuntimeImmutable ==
    [][/\ Len(arena') >= Len(arena)
       /\ \A i \in 1..Len(arena) : arena'[i] = arena[i]
       /\ BuiltAsCalled']_vars

\* a record was built by two pushes of different values and one force
C23_Witness ==
    \E i \in 1..Len(arena) :
        /\ arena[i].forces = 1
        /\ Len(arena[i].args) = 2
        /\ arena[i].args[1] # arena[i].args[2]

\* C24: r.is_ready() is true exactly when the number of args equals the arity
\* of r.fun and r.forces is at least the force count of r.fun; a record with
\* all its arguments but a missing force is not reported ready.
C24_IsReady ==
    (arena # <<>> /\ last.kind = "Ok") =>
        (last.value.b <=> (/\ Len(runtime.args) = arity(runtime.fun)
                           /\ runtime.forces >= force_count(runtime.fun)))

\* the Decoder stands at the bytes var_encode writes for binder b
StandsAt(d, b) ==
    LET written == var_encode(b, <<>>)
    IN  /\ d.pos + Len(written) <= Len(d.buffer)
        /\ \A k \in 1..Len(written) : d.buffer[d.pos + k] = written[k]

\* C25: var_decode applied to what var_encode wrote yields a binder whose
\* index() equals the original's; parameter_encode writes nothing to the
\* encoder; parameter_decode consumes nothing from the decoder and always
\* yields a binder with index 0.
C25_BinderOnTheWire ==
    [][/\ returned'.op = "var_decode" =>
             \A i \in Indices :
                 StandsAt(decoder, DeBruijn_new(i)) =>
                     /\ returned'.kind = "Ok"
                     /\ index(returned'.binder) = i
                     /\ decoder'.pos = decoder.pos + Len(var_encode(DeBruijn_new(i), <<>>))
       /\ returned'.op = "parameter_encode" =>
             returned'.kind = "Ok" /\ encoder' = encoder
       /\ returned'.op = "parameter_decode" =>
             /\ returned'.kind = "Ok"
             /\ index(returned'.binder) = 0
             /\ decoder' = decoder]_vars

\* a binder whose index takes two bytes was written twice and read back twice
C25_Witness ==
    /\ returned.op = "var_decode"
    /\ returned.kind = "Ok"
    /\ index(returned.binder) = 300
    /\ index(binder) = 300
    /\ decoder.pos = 4
    /\ Len(encoder) = 4

\* every element of a list is of the declared element type and every component
\* of a pair of its declared component type, at every depth
RECURSIVE WellTyped(_)
WellTyped(v) ==
    CASE v.t = "list" ->
           \A i \in 1..Len(v.l) : type_of(v.l[i]) = v.et /\ WellTyped(v.l[i])
      [] v.t = "pair" ->
           /\ v.et = "pair(" \o type_of(v.l[1]) \o "," \o type_of(v.l[2]) \o ")"
           /\ WellTyped(v.l[1]) /\ WellTyped(v.l[2])
      [] OTHER -> TRUE

\* C27: from homogeneous lists, every list returned along a chain of MkCons,
\* TailList, MkNilData, MkNilPairData, UnListData, UnMapData and UnConstrData
\* has all its elements of its declared element type; MkCons(x, l) returns a
\* type-mismatch error when the type of x differs from the element type of l
\* and otherwise x followed by l with the element type unchanged; HeadList and
\* TailList on an empty list return the empty-list error.
C27_ListsHomogeneous ==
    /\ (runtime.fun \in ListFuns /\ last.kind = "Ok") => WellTyped(last.value)
    /\ (Called("MkCons") /\ last.kind # "None" /\ Computed) =>
          IF type_of(runtime.args[1]) # runtime.args[2].et
          THEN last.kind = "Err" /\ last.err = "mk_cons_type_mismatch"
          ELSE /\ last.kind = "Ok"
               /\ last.value = Value_list(runtime.args[2].et,
                                          <<runtime.args[1]>> \o runtime.args[2].l)
    /\ (runtime.fun \in {"HeadList", "TailList"} /\ last.kind # "None" /\ Computed
          /\ Len(runtime.args[1].l) = 0) =>
          last.kind = "Err" /\ last.err = "empty_list"

\* MkCons put an item in front of a list that an earlier MkCons of the chain
\* had returned
C27_Witness ==
    /\ Called("MkCons")
    /\ last.kind = "Ok"
    /\ Len(last.value.l) = 2
    /\ last.value.l[1] # last.value.l[2]
    /\ budget.cpu <= MaxChain - 2

\* C26: type checks precede the budget debit in every builtin: whenever a
\* dispatch returns a type-mismatch error (wrong argument shape, or wrong
\* declared list element type in ConstrData, ListData and MapData), the
\* remaining budget and the log are what they were before the dispatch.
C26_TypeCheckBeforeDebit ==
    [][(last.kind = "None" /\ last'.kind = "Err" /\ last'.err = "type_mismatch") =>
          (budget' = budget /\ logs' = logs)]_vars

\* Machine::call as a relation: the results the dispatch of record r can give
\* on machine m
call(m, r) ==
    CASE r.fun = "DivideInteger" -> {call_DivideInteger(m, r.args)}
      [] r.fun = "QuotientInteger" -> {call_QuotientInteger(m, r.args)}
      [] r.fun = "RemainderInteger" -> {call_RemainderInteger(m, r.args)}
      [] r.fun = "ModInteger" -> {call_ModInteger(m, r.args)}
      [] r.fun = "ConsByteString" -> {call_ConsByteString(m, r.args)}
      [] r.fun = "SliceByteString" -> {call_SliceByteString(m, r.args)}
      [] r.fun = "IndexByteString" -> {call_IndexByteString(m, r.args)}
      [] r.fun = "IfThenElse" -> {call_IfThenElse(m, r.args)}
      [] r.fun = "Trace" -> {call_Trace(m, r.args)}
      [] r.fun = "ShiftByteString" -> {call_ShiftByteString(m, r.args)}
      [] r.fun = "IntegerToByteString" -> {call_IntegerToByteString(m, r.args)}
      [] r.fun = "ByteStringToInteger" -> {call_ByteStringToInteger(m, r.args)}
      [] r.fun = "RotateByteString" -> {call_RotateByteString(m, r.args)}
      [] r.fun = "ReadBit" -> {call_ReadBit(m, r.args)}
      [] r.fun = "WriteBits" -> {call_WriteBits(m, r.args)}
      [] r.fun = "AndByteString" -> {call_AndByteString(m, r.args)}
      [] r.fun = "OrByteString" -> {call_OrByteString(m, r.args)}
      [] r.fun = "XorByteString" -> {call_XorByteString(m, r.args)}
      [] r.fun = "FindFirstSetBit" -> {call_FindFirstSetBit(m, r.args)}
      [] r.fun = "Bls12_381_G2_ScalarMul" ->
             {call_Bls12_381_G2_ScalarMul(m, r.args, uninit) : uninit \in UninitBytes}
      [] r.fun = "Bls12_381_G1_ScalarMul" -> {call_Bls12_381_G1_ScalarMul(m, r.args)}
      [] r.fun = "ConstrData" -> {call_ConstrData(m, r.args)}
      [] r.fun = "MapData" -> {call_MapData(m, r.args)}
      [] r.fun = "ListData" -> {call_ListData(m, r.args)}
      [] r.fun = "IData" -> {call_IData(m, r.args)}
      [] r.fun = "BData" -> {call_BData(m, r.args)}
      [] r.fun = "UnConstrData" -> {call_UnConstrData(m, r.args)}
      [] r.fun = "UnMapData" -> {call_UnMapData(m, r.args)}
      [] r.fun = "UnListData" -> {call_UnListData(m, r.args)}
      [] r.fun = "UnIData" -> {call_UnIData(m, r.args)}
      [] r.fun = "UnBData" -> {call_UnBData(m, r.args)}
      [] r.fun = "ChooseUnit" -> {call_ChooseUnit(m, r.args)}
      [] r.fun = "ChooseList" -> {call_ChooseList(m, r.args)}
      [] r.fun = "ChooseData" -> {call_ChooseData(m, r.args)}
      [] r.fun = "VerifyEd25519Signature" -> {call_VerifyEd25519Signature(m, r.args)}
      [] r.fun = "MkCons" -> {call_MkCons(m, r.args)}
      [] r.fun = "HeadList" -> {call_HeadList(m, r.args)}
      [] r.fun = "TailList" -> {call_TailList(m, r.args)}
      [] r.fun = "MkNilData" -> {call_MkNilData(m, r.args)}
      [] r.fun = "MkNilPairData" -> {call_MkNilPairData(m, r.args)}
      [] r.fun = "SndPair" -> {call_SndPair(m, r.args)}
      [] r.fun = "SerialiseData" -> {call_SerialiseData(m, r.args)}

\* C28: dispatching the same ready Runtime record from equal remaining budget,
\* equal log and equal BuiltinSemantics yields the identical outcome, the
\* identical remaining budget and the identical log: every dispatch has one
\* possible result, which depends on nothing but the record and the machine.
C28_Deterministic ==
    [][(last.kind = "None" /\ last'.kind # "None") =>
          LET results == call(Machine(budget, logs, semantics), runtime)
          IN  /\ \E r \in results :
                    /\ budget' = r.m.budget
                    /\ logs' = r.m.logs
                    /\ last' = [kind |-> r.kind, value |-> r.value, err |-> r.err,
                                eargs |-> r.eargs, spent |-> r.m.spent]
              /\ Cardinality(results) = 1]_vars

\* C29: the cost debited by a dispatch is computed with the cost-table entry of
\* the builtin being dispatched and no other builtin's; in particular
\* XorByteString is charged with the XorByteString entry.
C29_OwnCostEntry ==
    last.kind # "None" =>
        \A i \in 1..Len(last.spent) : last.spent[i] = CostEntry(runtime.fun)

\* C30: for every builtin and every ready Runtime whose arguments have the
\* expected shapes, whatever their numeric values, call returns either a Value
\* or a MachineError value and never aborts the process.
C30_Total ==
    (\A i \in 1..Len(runtime.args) : WellTyped(runtime.args[i])) => last.kind # "Panic"
====
